---- MODULE Spec2Model ----
(***************************************************************************)
(* The event-driven simulation engine of hazard_islands (SimulationEngine, *)
(* simulationEngine.ts), with the RK4 integrator (odeSolver.ts), the       *)
(* Lotka-Volterra Type II vector field (ecologyModel.ts), the network      *)
(* builder (networkBuilder.ts) and the page that owns the engine           *)
(* (Home.tsx).                                                             *)
(*                                                                         *)
(* Numbers.  A JavaScript number is an IEEE-754 binary64 number, and it is *)
(* modelled as one: the record [sign, exp, hi, lo] stands for              *)
(*     sign * ((hi * 2^28 + lo) / 2^52) * 2^exp                            *)
(* where sign is 1 or -1 and hi * 2^28 + lo is the 53-digit significand,   *)
(* 2^24 <= hi < 2^25 and 0 <= lo < 2^28 (two halves, so that every         *)
(* intermediate value fits a 32-bit integer).  Zero is the record Zero; -0 *)
(* is not told from 0.  Add64, Sub64, Mul64, Div64 and Sqrt64 round to     *)
(* nearest, ties to even, as +, -, *, / and Math.sqrt do.  Dbl(n) is the   *)
(* number the program text writes as n/SCALE (Dbl(500) is 0.5, Dbl(10) is  *)
(* 0.01) and Int64(n) the integer n.  NaN, the infinities and subnormal    *)
(* numbers are not modelled: the inputs are chosen so that none arises.    *)
(* Counts and indices are integers.                                        *)
(*                                                                         *)
(* Arrays indexed by species are functions on 0 .. n-1 (the source's       *)
(* indices); history and the hurricane log are sequences in push order, so *)
(* history[0] of the source is history[1] here.                            *)
(*                                                                         *)
(* null is NULL (the empty tuple); a value v that may be null is <<v>>.    *)
(***************************************************************************)
EXTENDS Integers, Sequences, FiniteSets, TLC

SCALE == 10 * 100

NULL == <<>>

Some(v) == <<v>>

\* Math.max on counts
Max(a, b) == IF a >= b THEN a ELSE b

\* An array value: the function f with every element computed once (f @@ <<>>
\* equals f; TLC evaluates it to an explicit table instead of re-evaluating
\* the element expression at every access)
Arr(f) == f @@ <<>>

Last(s) == s[Len(s)]

(***************************************************************************)
(* binary64 arithmetic                                                     *)
(***************************************************************************)

\* 2^28: a significand is kept in two halves of 28 binary digits
Half == 268435456

\* 2^14: products and quotients are computed on digits of 14 binary digits
Base == 16384

\* 2^n for 0 <= n <= 28
Pow2(n) ==
    <<1, 2, 4, 8, 16, 32, 64, 128, 256, 512, 1024, 2048, 4096, 8192, 16384,
      32768, 65536, 131072, 262144, 524288, 1048576, 2097152, 4194304,
      8388608, 16777216, 33554432, 67108864, 134217728, 268435456>>[n + 1]

Zero == [sign |-> 1, exp |-> 0, hi |-> 0, lo |-> 0]

IsZero(a) == a.hi = 0

\* the significand of a with three more binary digits, its high and low half
extHi(a) == a.hi * 8 + a.lo \div Pow2(25)

extLo(a) == (a.lo % Pow2(25)) * 8

\* v with its lowest binary digit set when digits below it were lost
OrSticky(v, lost) == IF lost /\ v % 2 = 0 THEN v + 1 ELSE v

\* the high half of floor((H * Half + L) / 2^d)
shrHi(H, L, d) == IF d >= 28 THEN 0 ELSE H \div Pow2(d)

\* the low half of floor((H * Half + L) / 2^d), its lowest digit set when the
\* division left a remainder
shrLo(H, L, d) ==
    IF d >= 56 THEN 1
    ELSE IF d >= 28
    THEN OrSticky(H \div Pow2(d - 28), L # 0 \/ H % Pow2(d - 28) # 0)
    ELSE OrSticky(L \div Pow2(d) + (H % Pow2(d)) * Pow2(28 - d), L % Pow2(d) # 0)

RECURSIVE bitSearch(_, _, _)
\* the least n in lo..hi with v < 2^n
bitSearch(v, lo, hi) ==
    IF lo = hi THEN lo
    ELSE IF v < Pow2((lo + hi) \div 2) THEN bitSearch(v, lo, (lo + hi) \div 2)
    ELSE bitSearch(v, (lo + hi) \div 2 + 1, hi)

\* the number of binary digits of v < Half
BitLen(v) == bitSearch(v, 0, 28)

\* the binary64 number nearest to sign * ((H * Half + L) / 2^55) * 2^exp, ties
\* to even: H * Half + L has 56 binary digits
Pack(sign, exp, H, L) ==
    LET hi == H \div 8
        lo == L \div 8 + (H % 8) * Pow2(25)
    IN  IF L % 8 > 4 \/ (L % 8 = 4 /\ lo % 2 = 1)
        THEN IF lo + 1 < Half THEN [sign |-> sign, exp |-> exp, hi |-> hi, lo |-> lo + 1]
             ELSE IF hi + 1 < Pow2(25) THEN [sign |-> sign, exp |-> exp, hi |-> hi + 1, lo |-> 0]
             ELSE [sign |-> sign, exp |-> exp + 1, hi |-> Pow2(24), lo |-> 0]
        ELSE [sign |-> sign, exp |-> exp, hi |-> hi, lo |-> lo]

\* H * Half + L shifted by s binary digits and rounded: to the left for
\* s >= 0, by one digit to the right for s = -1
normShift(sign, exp, H, L, s) ==
    Pack(sign, exp - s,
         IF s < 0 THEN H \div 2
         ELSE IF s < 28 THEN H * Pow2(s) + L \div Pow2(28 - s)
         ELSE L * Pow2(s - 28),
         IF s < 0 THEN OrSticky(L \div 2 + (H % 2) * Pow2(27), L % 2 = 1)
         ELSE IF s < 28 THEN (L % Pow2(28 - s)) * Pow2(s)
         ELSE 0)

\* the same as Pack for an H * Half + L of at most 57 binary digits, 0 <= L < Half:
\* with fewer than 56 digits it needs no rounding
normCarried(sign, exp, H, L) ==
    IF H = 0 /\ L = 0 THEN Zero
    ELSE normShift(sign, exp, H, L,
                   IF H >= Half THEN -1
                   ELSE IF H = 0 THEN 56 - BitLen(L) ELSE 28 - BitLen(H))

\* the same for any L: what L has beyond its half is carried to H, what it
\* lacks is borrowed from H (% and \div round down)
Normal(sign, exp, H, L) == normCarried(sign, exp, H + L \div Half, L % Half)

\* |a| < |b|
MagLess(a, b) ==
    IF IsZero(b) THEN FALSE
    ELSE IF IsZero(a) THEN TRUE
    ELSE IF a.exp # b.exp THEN a.exp < b.exp
    ELSE IF a.hi # b.hi THEN a.hi < b.hi
    ELSE a.lo < b.lo

\* a < b
Less64(a, b) ==
    IF a.sign # b.sign THEN a.sign < b.sign
    ELSE IF a.sign = 1 THEN MagLess(a, b) ELSE MagLess(b, a)

Leq64(a, b) == ~Less64(b, a)

Neg64(a) == IF IsZero(a) THEN a ELSE [a EXCEPT !.sign = 0 - @]

\* |a| + |b| for same = 1 and a.exp >= b.exp, |a| - |b| for same = -1 and
\* |a| >= |b|, with the sign of a: the two aligned significands are added or
\* subtracted half by half, and the result is rounded
addMag(a, b, same) ==
    Normal(a.sign, a.exp,
           extHi(a) + same * shrHi(extHi(b), extLo(b), a.exp - b.exp),
           extLo(a) + same * shrLo(extHi(b), extLo(b), a.exp - b.exp))

\* a + b: the first operand of addMag is the one of the larger exponent in a
\* sum of magnitudes, of the larger magnitude in a difference
Add64(a, b) ==
    IF IsZero(a) THEN b
    ELSE IF IsZero(b) THEN a
    ELSE IF (IF a.sign = b.sign THEN a.exp >= b.exp ELSE ~MagLess(a, b))
    THEN addMag(a, b, a.sign * b.sign)
    ELSE addMag(b, a, a.sign * b.sign)

Sub64(a, b) == Add64(a, Neg64(b))

\* the four digits of H * Half + L in base Base, the lowest first
Limbs(H, L) == <<L % Base, L \div Base, H % Base, H \div Base>>

\* the eight digits of a * b
MulExact(a, b) ==
    LET c1 == a[1] * b[1]
        c2 == a[1] * b[2] + a[2] * b[1] + c1 \div Base
        c3 == a[1] * b[3] + a[2] * b[2] + a[3] * b[1] + c2 \div Base
        c4 == a[1] * b[4] + a[2] * b[3] + a[3] * b[2] + a[4] * b[1] + c3 \div Base
        c5 == a[2] * b[4] + a[3] * b[3] + a[4] * b[2] + c4 \div Base
        c6 == a[3] * b[4] + a[4] * b[3] + c5 \div Base
        c7 == a[4] * b[4] + c6 \div Base
    IN  <<c1 % Base, c2 % Base, c3 % Base, c4 % Base, c5 % Base, c6 % Base,
          c7 % Base, c7 \div Base>>

\* the eight-digit product p without its 42 + drop lowest binary digits,
\* rounded: drop is 8 when p has 112 binary digits and 7 when it has 111
mulTop(sign, exp, p) ==
    LET drop == IF p[8] >= 128 THEN 8 ELSE 7
    IN  Pack(sign, exp + drop - 7,
             p[6] \div Pow2(drop) + p[7] * Pow2(14 - drop) + p[8] * Pow2(28 - drop),
             OrSticky(p[4] \div Pow2(drop) + p[5] * Pow2(14 - drop)
                          + (p[6] % Pow2(drop)) * Pow2(28 - drop),
                      p[1] # 0 \/ p[2] # 0 \/ p[3] # 0 \/ p[4] % Pow2(drop) # 0))

\* a * b
Mul64(a, b) ==
    IF IsZero(a) \/ IsZero(b) THEN Zero
    ELSE mulTop(a.sign * b.sign, a.exp + b.exp,
                MulExact(Limbs(a.hi, a.lo), Limbs(b.hi, b.lo)))

\* the first guess of the quotient digit of r * Base by d (d[4] >= Base / 2,
\* r < d): never too small
quotGuess(r, d) ==
    IF (r[4] * Base + r[3]) \div d[4] >= Base THEN Base - 1
    ELSE (r[4] * Base + r[3]) \div d[4]

RECURSIVE quotDigit(_, _, _, _, _, _, _)
RECURSIVE divDigits(_, _, _, _, _, _)
\* the next digit of the quotient: the largest q' <= q with q' * d <= r * Base;
\* the division goes on with the remainder r * Base - q' * d
quotDigit(sign, exp, r, d, q, k, qs) ==
    LET t1 == 0 - q * d[1]
        t2 == r[1] - q * d[2] + t1 \div Base
        t3 == r[2] - q * d[3] + t2 \div Base
        t4 == r[3] - q * d[4] + t3 \div Base
    IN  IF r[4] + t4 \div Base < 0 THEN quotDigit(sign, exp, r, d, q - 1, k, qs)
        ELSE divDigits(sign, exp, <<t1 % Base, t2 % Base, t3 % Base, t4 % Base>>, d,
                       k - 1, Append(qs, q))

\* floor(r * Base^4 / d) for r < d, rounded: qs are the digits found, k the
\* number of digits still to find
divDigits(sign, exp, r, d, k, qs) ==
    IF k = 0
    THEN Pack(sign, exp, qs[1] * Base + qs[2],
              OrSticky(qs[3] * Base + qs[4], r # <<0, 0, 0, 0>>))
    ELSE quotDigit(sign, exp, r, d, quotGuess(r, d), k, qs)

\* a / b, b not zero
Div64(a, b) ==
    IF IsZero(a) THEN Zero
    ELSE divDigits(a.sign * b.sign,
                   IF a.hi < b.hi \/ (a.hi = b.hi /\ a.lo < b.lo)
                   THEN a.exp - b.exp - 1 ELSE a.exp - b.exp,
                   IF a.hi < b.hi \/ (a.hi = b.hi /\ a.lo < b.lo)
                   THEN Limbs(extHi(a), extLo(a))
                   ELSE Limbs(a.hi * 4 + a.lo \div Pow2(26), (a.lo % Pow2(26)) * 4),
                   Limbs(extHi(b), extLo(b)), 4, <<>>)

RECURSIVE lessFrom(_, _, _)
\* a < b for sequences of k digits
lessFrom(a, b, k) ==
    IF k = 0 THEN FALSE
    ELSE IF a[k] # b[k] THEN a[k] < b[k]
    ELSE lessFrom(a, b, k - 1)

RECURSIVE sqrtDigit(_, _, _, _, _)
\* the largest v in lo..hi for which r with v as digit k has its square <= n
sqrtDigit(n, r, k, lo, hi) ==
    IF lo = hi THEN lo
    ELSE IF lessFrom(n, MulExact([r EXCEPT ![k] = (lo + hi + 1) \div 2],
                                 [r EXCEPT ![k] = (lo + hi + 1) \div 2]), 8)
    THEN sqrtDigit(n, r, k, lo, (lo + hi + 1) \div 2 - 1)
    ELSE sqrtDigit(n, r, k, (lo + hi + 1) \div 2, hi)

RECURSIVE sqrtFrom(_, _, _, _)
\* floor(sqrt(n)) for an eight-digit n, its digits from k down still to
\* find, rounded
sqrtFrom(exp, n, r, k) ==
    IF k = 0
    THEN Pack(1, exp, r[4] * Base + r[3],
              OrSticky(r[2] * Base + r[1], MulExact(r, r) # n))
    ELSE sqrtFrom(exp, n, [r EXCEPT ![k] = sqrtDigit(n, r, k, 0, Base - 1)], k - 1)

\* Math.sqrt(a), a >= 0
Sqrt64(a) ==
    IF IsZero(a) THEN Zero
    ELSE sqrtFrom(a.exp \div 2,
                  <<0, 0, 0, 0>> \o
                      (IF a.exp % 2 = 0
                       THEN Limbs(a.hi * 4 + a.lo \div Pow2(26), (a.lo % Pow2(26)) * 4)
                       ELSE Limbs(extHi(a), extLo(a))),
                  <<0, 0, 0, 0>>, 4)

\* the integer n as a number
Int64(n) ==
    Normal(IF n < 0 THEN -1 ELSE 1, 55, (IF n < 0 THEN 0 - n ELSE n) \div Half,
           (IF n < 0 THEN 0 - n ELSE n) % Half)

\* the number written n/SCALE in the program text: the binary64 number
\* nearest to it
Dbl(n) == Div64(Int64(n), Int64(SCALE))

Min64(a, b) == IF Less64(b, a) THEN b ELSE a

\* Math.floor(a) for 0 <= a < 2^31
Floor64(a) ==
    IF IsZero(a) \/ a.exp < 0 THEN 0
    ELSE IF a.exp < 25 THEN a.hi \div Pow2(24 - a.exp)
    ELSE a.hi * Pow2(a.exp - 24) + a.lo \div Pow2(52 - a.exp)

One == Int64(1)

Two == Int64(2)

(***************************************************************************)
(* ecologyModel.ts                                                         *)
(***************************************************************************)

\* mutant: the competitive part is the signed value itself
compPartUnclipped(val) == val

\* the split of a signed interaction value: val => Math.max(0, val) and
\* val => Math.min(0, val)
compPart(val) == Min64(Zero, val)

mutPart(val) == IF Less64(Zero, val) THEN val ELSE Zero

\* generateInteractionMatrices: the ring of nSpecies species, Y before the split
ringY(cfg) ==
    LET n == cfg.nSpecies
    IN  Arr([i \in 0..(n - 1) |-> Arr([j \in 0..(n - 1) |->
            IF i # j
            THEN IF (i + 1) % n = j \/ (j + 1) % n = i
                 THEN cfg.mutualisticStrength
                 ELSE cfg.competitionStrength
            ELSE Zero])])

generateInteractionMatrices(cfg) ==
    LET Y == ringY(cfg)
    IN  [Y_mut |-> Arr([i \in DOMAIN Y |-> Arr([j \in DOMAIN Y[i] |-> mutPart(Y[i][j])])]),
         Y_comp |-> Arr([i \in DOMAIN Y |-> Arr([j \in DOMAIN Y[i] |-> compPart(Y[i][j])])])]

RECURSIVE reduceSum(_, _, _, _)
\* row.reduce((sum, val, i) => sum + val * vec[i], 0), from index i on with
\* the accumulator sum
reduceSum(row, vec, i, sum) ==
    IF i \notin DOMAIN row THEN sum
    ELSE reduceSum(row, vec, i + 1, Add64(sum, Mul64(row[i], vec[i])))

matVecMult(matrix, vec) == Arr([i \in DOMAIN matrix |-> reduceSum(matrix[i], vec, 0, Zero)])

\* val / (1 + h[i] * val)
typeIIResponse(mutRaw, h) ==
    Arr([i \in DOMAIN mutRaw |->
            Div64(mutRaw[i], Add64(One, Mul64(h[i], mutRaw[i])))])

\* mutant: no guard
EcoGuardNever(Ni) == FALSE

\* the "Prevent negative populations" guard of ecoDynamicsTypeII
EcoGuard(Ni) == Leq64(Ni, Zero)

\* r[i] - Ni + compSum[i] + M[i], summed from the left
growth(ri, Ni, compSumi, Mi) == Add64(Add64(Sub64(ri, Ni), compSumi), Mi)

\* mutant: the growth term is not multiplied by the density N[i], and a
\* population of 0 is not guarded
ecoDynamicsNoDensity(t, N, params) ==
    LET mutRaw == matVecMult(params.Y_mut, N)
        M == typeIIResponse(mutRaw, params.h)
        compSum == matVecMult(params.Y_comp, N)
    IN  Arr([i \in DOMAIN N |->
                IF Less64(N[i], Zero) THEN Zero
                ELSE growth(params.r[i], N[i], compSum[i], M[i])])

ecoDynamicsTypeII(t, N, params) ==
    LET mutRaw == matVecMult(params.Y_mut, N)
        M == typeIIResponse(mutRaw, params.h)
        compSum == matVecMult(params.Y_comp, N)
    IN  Arr([i \in DOMAIN N |->
                IF EcoGuard(N[i]) THEN Zero
                ELSE Mul64(N[i], growth(params.r[i], N[i], compSum[i], M[i]))])

(***************************************************************************)
(* odeSolver.ts                                                            *)
(***************************************************************************)

\* yi + h * ki for every i
advanced(y, h, k) == Arr([i \in DOMAIN y |-> Add64(y[i], Mul64(h, k[i]))])

\* the returned array, y[i] + (dt / 6) * (k1[i] + 2 * k2[i] + 2 * k3[i] + k4[i])
rk4Stage4(t, y, dt, params, k1, k2, k3, k4) ==
    Arr([i \in DOMAIN y |->
            Add64(y[i],
                  Mul64(Div64(dt, Int64(6)),
                        Add64(Add64(Add64(k1[i], Mul64(Two, k2[i])),
                                    Mul64(Two, k3[i])), k4[i])))])

\* y4 = y + dt * k3 and k4 = f(t + dt, y4, params)
rk4Stage3(t, y, dt, params, k1, k2, k3) ==
    rk4Stage4(t, y, dt, params, k1, k2, k3,
              ecoDynamicsTypeII(Add64(t, dt), advanced(y, dt, k3), params))

\* y3 = y + (dt / 2) * k2 and k3 = f(t + dt / 2, y3, params)
rk4Stage2(t, y, dt, params, k1, k2) ==
    rk4Stage3(t, y, dt, params, k1, k2,
              ecoDynamicsTypeII(Add64(t, Div64(dt, Two)),
                                advanced(y, Div64(dt, Two), k2), params))

\* y2 = y + (dt / 2) * k1 and k2 = f(t + dt / 2, y2, params)
rk4Stage1(t, y, dt, params, k1) ==
    rk4Stage2(t, y, dt, params, k1,
              ecoDynamicsTypeII(Add64(t, Div64(dt, Two)),
                                advanced(y, Div64(dt, Two), k1), params))

\* k1 = f(t, y, params); f is ecoDynamicsTypeII, the only function the program
\* hands to the solver
rk4Step(t, y, dt, params) ==
    rk4Stage1(t, y, dt, params, ecoDynamicsTypeII(t, y, params))

RECURSIVE solveLoop(_, _, _, _, _, _)
RECURSIVE solveNext(_, _, _, _, _, _)
\* the while (t < t1) loop of solveODE: step = Math.min(dt, t1 - t), t += step
solveLoop(solution, t, y, t1, dt, params) ==
    IF Less64(t, t1)
    THEN solveNext(solution, Add64(t, Min64(dt, Sub64(t1, t))),
                   rk4Step(t, y, Min64(dt, Sub64(t1, t)), params), t1, dt, params)
    ELSE solution

\* solution.push({ t, y: [...y] }) and the next turn of the loop
solveNext(solution, t, y, t1, dt, params) ==
    solveLoop(Append(solution, [t |-> t, y |-> y]), t, y, t1, dt, params)

solveODE(y0, t0, t1, dt, params) ==
    solveLoop(<<[t |-> t0, y |-> y0]>>, t0, y0, t1, dt, params)
(***************************************************************************)
(* networkBuilder.ts: matrices are arrays indexed from 0                   *)
(***************************************************************************)

\* matrix.length and matrix[0].length
NRows(matrix) == Cardinality(DOMAIN matrix)

NCols(matrix) == Cardinality(DOMAIN matrix[0])

\* mutant: the padding cells hold 1
padMatrixOnes(matrix, targetRows, targetCols) ==
    IF matrix = NULL THEN NULL
    ELSE Arr([i \in 0..(targetRows - 1) |-> Arr([j \in 0..(targetCols - 1) |->
             IF i < NRows(matrix) /\ j < NCols(matrix) THEN matrix[i][j] ELSE One])])

\* padMatrix: null stays null
padMatrix(matrix, targetRows, targetCols) ==
    IF matrix = NULL THEN NULL
    ELSE Arr([i \in 0..(targetRows - 1) |-> Arr([j \in 0..(targetCols - 1) |->
             IF i < NRows(matrix) /\ j < NCols(matrix) THEN matrix[i][j] ELSE Zero])])

RECURSIVE sumTo(_, _)
\* f[0] + ... + f[n - 1] summed from the left, as reduce((sum, val) => sum + val, 0)
\* and the += loops do
sumTo(f, n) == IF n = 0 THEN Zero ELSE Add64(sumTo(f, n - 1), f[n - 1])

\* mutant: the denominator counts the entity itself
comp_denom_all(n_active) == Max(n_active, 1)

\* Math.max(n_active - 1, 1): the number of other active species
comp_denom(n_active) == Max(n_active - 1, 1)

\* mutant: an entity competes with itself
competesWithSelf(i, j) == TRUE

\* if (i !== j) of the two competition loops
competes(i, j) == i # j

\* mutant: linear normalisation, without the square root
mutualismLinear(strength, weight, denom) == Div64(Mul64(strength, weight), denom)

\* strength * weight / Math.sqrt(denom)
mutualism(strength, weight, denom) == Div64(Mul64(strength, weight), Sqrt64(denom))

\* buildInteractionMatrix: the signed matrix Y accumulated before the split
buildY(network, params) ==
    LET B == network.B
        S == network.S
        m == params.m
        d == params.d
        c == params.c
        Np == Max(IF B # NULL THEN NRows(B) ELSE 0, IF S # NULL THEN NRows(S) ELSE 0)
        Na == Max(IF B # NULL THEN NCols(B) ELSE 0, IF S # NULL THEN NCols(S) ELSE 0)
        Nt == Np + Na
        B_padded == padMatrix(B, Np, Na)
        S_padded == padMatrix(S, Np, Na)
        plant_in(P) ==
            Arr([i \in 0..(Np - 1) |-> P # NULL /\ \E j \in 0..(Na - 1) : Less64(Zero, P[i][j])])
        animal_in(P) ==
            Arr([j \in 0..(Na - 1) |-> P # NULL /\ \E i \in 0..(Np - 1) : Less64(Zero, P[i][j])])
        plant_in_B == plant_in(B_padded)
        animal_in_B == animal_in(B_padded)
        plant_in_S == plant_in(S_padded)
        animal_in_S == animal_in(S_padded)
        count(flags) == Cardinality({i \in DOMAIN flags : flags[i]})
        comp_denom_p_b == comp_denom(count(plant_in_B))
        comp_denom_a_b == comp_denom(count(animal_in_B))
        comp_denom_p_s == comp_denom(count(plant_in_S))
        comp_denom_a_s == comp_denom(count(animal_in_S))
        competition(i, j, in_B, in_S, denom_b, denom_s) ==
            IF competes(i, j)
            THEN Add64(IF in_B[i] /\ in_B[j] THEN Div64(c, Int64(denom_b)) ELSE Zero,
                       IF in_S[i] /\ in_S[j] THEN Div64(c, Int64(denom_s)) ELSE Zero)
            ELSE Zero
        row_sum(P, i) == sumTo(P[i], Na)
        col_sum(P, j) == sumTo([i \in 0..(Np - 1) |-> P[i][j]], Np)
        \* plant i -> animal j
        plantToAnimal(P, strength, i, j) ==
            IF P # NULL /\ Less64(Zero, P[i][j]) /\ Less64(Zero, row_sum(P, i))
            THEN mutualism(strength, P[i][j], row_sum(P, i)) ELSE Zero
        \* animal j -> plant i
        animalToPlant(P, strength, i, j) ==
            IF P # NULL /\ Less64(Zero, P[i][j]) /\ Less64(Zero, col_sum(P, j))
            THEN mutualism(strength, P[i][j], col_sum(P, j)) ELSE Zero
    IN  Arr([a \in 0..(Nt - 1) |-> Arr([b \in 0..(Nt - 1) |->
            IF a < Np /\ b < Np
            THEN competition(a, b, plant_in_B, plant_in_S, comp_denom_p_b, comp_denom_p_s)
            ELSE IF a >= Np /\ b >= Np
            THEN competition(a - Np, b - Np, animal_in_B, animal_in_S,
                             comp_denom_a_b, comp_denom_a_s)
            ELSE IF a < Np
            THEN Add64(plantToAnimal(B_padded, m, a, b - Np), plantToAnimal(S_padded, d, a, b - Np))
            ELSE Add64(animalToPlant(B_padded, m, b, a - Np), animalToPlant(S_padded, d, b, a - Np))])])

\* mutant: one missing matrix is enough to throw
BuildThrowsEither(network) == network.B = NULL \/ network.S = NULL

\* buildInteractionMatrix throws when neither matrix is given
BuildThrows(network) == network.B = NULL /\ network.S = NULL

buildInteractionMatrix(network, params) ==
    LET split(Y) ==
            [Y_mut |-> Arr([i \in DOMAIN Y |->
                               Arr([j \in DOMAIN Y[i] |-> mutPart(Y[i][j])])]),
             Y_comp |-> Arr([i \in DOMAIN Y |->
                                Arr([j \in DOMAIN Y[i] |-> compPart(Y[i][j])])]),
             nSpecies |-> Cardinality(DOMAIN Y)]
    IN  split(buildY(network, params))

(***************************************************************************)
(* simulationEngine.ts                                                     *)
(***************************************************************************)

VARIABLES
    ecologyParams,          \* this.ecologyParams
    config,                 \* this.config
    initialPopulations,     \* this.initialPopulations
    extinctionThresholds,   \* this.extinctionThresholds
    time,                   \* this.state.time
    populations,            \* this.state.populations
    hurricanes,             \* this.state.hurricanes
    extinctSpecies,         \* this.state.extinctSpecies
    history,                \* this.state.history
    call,                   \* the last operation: a call on the engine with its
                            \* inputs and result, or a write by the caller
    held,                   \* the value the last accessor call returned, as the
                            \* caller holds it
    home                    \* the state and refs of the Home component that
                            \* owns the engine; NULL for an engine of its own

vars == <<ecologyParams, config, initialPopulations, extinctionThresholds,
          time, populations, hurricanes, extinctSpecies, history, call, held, home>>

\* mutant: the minus sign of -Math.log is lost
randomExponentialSignLost(lambda, expDraw) == Div64(Neg64(expDraw), lambda)

\* -Math.log(1 - Math.random()) / lambda; expDraw is the value of
\* -Math.log(1 - Math.random()), which is >= 0 for Math.random() in [0, 1)
randomExponential(lambda, expDraw) == Div64(expDraw, lambda)

RECURSIVE drawLoop(_, _, _, _)
\* the for (const cat of categories) loop of drawHurricaneDamage, from the k-th
\* category on with the running sum cumProb; falls back to the last category
drawLoop(categories, rand, k, cumProb) ==
    IF k > Len(categories)
    THEN [category |-> Last(categories).name, damage |-> Last(categories).damage]
    ELSE IF Leq64(rand, Add64(cumProb, categories[k].probability))
         THEN [category |-> categories[k].name, damage |-> categories[k].damage]
         ELSE drawLoop(categories, rand, k + 1, Add64(cumProb, categories[k].probability))

RECURSIVE drawLoopStrict(_, _, _, _)
\* mutant: the loop compares with rand < cumProb
drawLoopStrict(categories, rand, k, cumProb) ==
    IF k > Len(categories)
    THEN [category |-> Last(categories).name, damage |-> Last(categories).damage]
    ELSE IF Less64(rand, Add64(cumProb, categories[k].probability))
         THEN [category |-> categories[k].name, damage |-> categories[k].damage]
         ELSE drawLoopStrict(categories, rand, k + 1,
                             Add64(cumProb, categories[k].probability))

drawHurricaneDamageStrict(categories, rand) == drawLoopStrict(categories, rand, 1, Zero)

\* rand is the value of Math.random()
drawHurricaneDamage(categories, rand) == drawLoop(categories, rand, 1, Zero)

\* initialPopulations.map(pop => pop * config.extinctionThreshold)
thresholdsOf(pops, cfg) ==
    Arr([i \in DOMAIN pops |-> Mul64(pops[i], cfg.extinctionThreshold)])

\* drawHurricaneDamage: with no category the fallback reads .name of
\* categories[-1], which is undefined, and the call throws a TypeError
DrawThrows(categories) == Len(categories) = 0

\* { ...this.config, ...config }
mergeConfig(old, partial) ==
    [f \in DOMAIN old |-> IF f \in DOMAIN partial THEN partial[f] ELSE old[f]]

\* mutant: a candidate exactly at endTime is discarded
RetainedStrict(nextHurricaneTime, endTime) == Less64(nextHurricaneTime, endTime)

\* step: the candidate event time nextHurricaneTime is kept unless it is past endTime
Retained(nextHurricaneTime, endTime) == ~Less64(endTime, nextHurricaneTime)

\* step: "Check for extinction"
BelowThreshold(newPop, threshold) == Less64(newPop, threshold)

\* step: pop * (1 - damage)
Damaged(pop, damage) == Mul64(pop, Sub64(One, damage))

\* mutant: the post-hurricane sample is stamped one time unit late
ShockSampleTimeLate(nextHurricaneTime) == Add64(nextHurricaneTime, One)

\* step: the time of the post-hurricane history sample
ShockSampleTime(nextHurricaneTime) == nextHurricaneTime

\* mutant: the set is replaced by the species this shock took from a positive
\* population to extinction
ExtinctAfterShockNewOnly(extinct, pops, thresholds, damage) ==
    {i \in DOMAIN pops :
        Less64(Zero, pops[i]) /\ BelowThreshold(Damaged(pops[i], damage), thresholds[i])}

\* step: the extinct set after the shock's map over populations
ExtinctAfterShock(extinct, pops, thresholds, damage) ==
    extinct \cup {i \in DOMAIN pops : BelowThreshold(Damaged(pops[i], damage), thresholds[i])}

\* mutant: a population below its threshold keeps its damaged value
PopulationsAfterShockKept(pops, thresholds, damage) ==
    Arr([i \in DOMAIN pops |-> Damaged(pops[i], damage)])

\* step: the populations after the shock's map
PopulationsAfterShock(pops, thresholds, damage) ==
    Arr([i \in DOMAIN pops |->
            IF BelowThreshold(Damaged(pops[i], damage), thresholds[i]) THEN Zero
            ELSE Damaged(pops[i], damage)])

\* mutant: the solution's first point is pushed too
PushSolutionAll(hist, solution) == hist \o solution

\* mutant: the solution's samples replace the history
PushSolutionReplace(hist, solution) == Tail(solution)

\* step: history after the solution's samples are pushed, all but its first
\* point ("skip first point as it's already in history")
PushSolution(hist, solution) == hist \o Tail(solution)

\* mutant: every segment whose end differs from its start is integrated
IntegratesNonZero(actualEndTime, startTime) == actualEndTime # startTime

\* step: "Integrate until actualEndTime" only if (actualEndTime > startTime)
Integrates(actualEndTime, startTime) == Less64(startTime, actualEndTime)

\* mutant: a waiting time is drawn for every non-zero rate
DrawnNonZero(hurricaneRate) == hurricaneRate # Zero

\* step: a waiting time is drawn only for a positive rate
Drawn(hurricaneRate) == Less64(Zero, hurricaneRate)

\* mutant: the record carries the surviving fraction instead of the damage
HurricaneRecordSurvival(nextHurricaneTime, hit) ==
    [time |-> nextHurricaneTime, category |-> hit.category, damage |-> Sub64(One, hit.damage)]

\* step: the record pushed to the hurricane log
HurricaneRecord(nextHurricaneTime, hit) ==
    [time |-> nextHurricaneTime, category |-> hit.category, damage |-> hit.damage]

(***************************************************************************)
(* The inputs the engine is driven with.                                   *)
(***************************************************************************)

Species == {0, 1}

\* mutualistic pair, no competition
ParamsMut ==
    [Y_mut |-> [i \in Species |-> [j \in Species |-> IF i = j THEN Zero ELSE Dbl(500)]],
     Y_comp |-> [i \in Species |-> [j \in Species |-> Zero]],
     r |-> [i \in Species |-> IF i = 0 THEN Dbl(500) ELSE Dbl(250)],
     h |-> [i \in Species |-> Dbl(500)]]

\* competing pair, no mutualism
ParamsComp ==
    [Y_mut |-> [i \in Species |-> [j \in Species |-> Zero]],
     Y_comp |-> [i \in Species |-> [j \in Species |-> IF i = j THEN Zero ELSE Dbl(-1000)]],
     r |-> [i \in Species |-> IF i = 0 THEN Dbl(250) ELSE Dbl(100)],
     h |-> [i \in Species |-> Dbl(500)]]

ParamSets == {ParamsMut, ParamsComp}

InitPops == {[i \in Species |-> One],
             [i \in Species |-> IF i = 0 THEN Dbl(500) ELSE Zero]}

CatsA == <<[name |-> "Category 1", probability |-> Dbl(500), damage |-> Dbl(900)],
           [name |-> "Category 2", probability |-> Dbl(500), damage |-> Dbl(995)]>>

CatsB == <<[name |-> "Category 3", probability |-> Dbl(300), damage |-> Dbl(500)]>>

InitConfigs ==
    {[hurricaneRate |-> One, hurricaneCategories |-> CatsA,
      extinctionThreshold |-> f, timeStep |-> Dbl(500)] : f \in {Dbl(10), Dbl(500)}}

Partials ==
    {[hurricaneRate |-> Zero],
     [hurricaneRate |-> Dbl(-1000)],
     [extinctionThreshold |-> Dbl(500)],
     [timeStep |-> Dbl(250), hurricaneCategories |-> CatsB]}

Durations == {Dbl(-500), Zero, Dbl(500)}

ExpDraws == {Zero, Dbl(300), Dbl(500), Two}

Rands == {Dbl(500), Dbl(999)}

\* step is called while history holds fewer than MaxHist samples
MaxHist == 3

(***************************************************************************)
(* The engine's operations.                                                *)
(***************************************************************************)

\* constructor
Init ==
    /\ ecologyParams = ParamsMut
    /\ config \in InitConfigs
    /\ initialPopulations \in InitPops
    /\ extinctionThresholds = thresholdsOf(initialPopulations, config)
    /\ time = Zero
    /\ populations = initialPopulations
    /\ hurricanes = <<>>
    /\ extinctSpecies = {}
    /\ history = <<[t |-> Zero, y |-> initialPopulations]>>
    /\ call = [op |-> "constructor", arg |-> NULL, duration |-> NULL,
               timeToNext |-> NULL, rand |-> NULL, ret |-> NULL, threw |-> FALSE]
    /\ held = NULL
    /\ home = NULL

\* A value an accessor returned is a record of the parts it holds.  An element
\* of a returned hurricane array is [ref |-> k] when it is the very object at
\* this.state.hurricanes[k], and [own |-> e] when it is an object of the
\* caller's alone.

\* the event an element of a returned hurricane array stands for
EventOf(el) == IF "ref" \in DOMAIN el THEN hurricanes[el.ref] ELSE el.own

\* reset assigns a new empty array to this.state.hurricanes: the objects of the
\* old log are no longer the engine's, and the caller keeps those it holds
Detached(h) ==
    IF h = NULL \/ "hurricanes" \notin DOMAIN h[1] THEN h
    ELSE Some([h[1] EXCEPT !.hurricanes =
                  Arr([k \in DOMAIN h[1].hurricanes |->
                          [own |-> EventOf(h[1].hurricanes[k])]])])

\* [...this.state.hurricanes]: a new array of the same event objects
CopyOfHurricanes == Arr([k \in DOMAIN hurricanes |-> [ref |-> k]])

\* mutant: reset does not clear the extinct set
ResetKeepsExtinct(newPops) ==
    LET pops == IF newPops # NULL THEN newPops[1] ELSE initialPopulations
    IN  /\ initialPopulations' = pops
        /\ extinctionThresholds' =
              IF newPops # NULL THEN thresholdsOf(pops, config) ELSE extinctionThresholds
        /\ time' = Zero
        /\ populations' = pops
        /\ hurricanes' = <<>>
        /\ history' = <<[t |-> Zero, y |-> pops]>>
        /\ call' = [op |-> "reset", arg |-> newPops, duration |-> NULL,
                    timeToNext |-> NULL, rand |-> NULL, ret |-> NULL, threw |-> FALSE]
        /\ held' = Detached(held)
        /\ UNCHANGED <<ecologyParams, config, extinctSpecies, home>>

\* reset(initialPopulations?): newPops is NULL when the argument is omitted
Reset(newPops) ==
    LET pops == IF newPops # NULL THEN newPops[1] ELSE initialPopulations
    IN  /\ initialPopulations' = pops
        /\ extinctionThresholds' =
              IF newPops # NULL THEN thresholdsOf(pops, config) ELSE extinctionThresholds
        /\ time' = Zero
        /\ populations' = pops
        /\ hurricanes' = <<>>
        /\ extinctSpecies' = {}
        /\ history' = <<[t |-> Zero, y |-> pops]>>
        /\ call' = [op |-> "reset", arg |-> newPops, duration |-> NULL,
                    timeToNext |-> NULL, rand |-> NULL, ret |-> NULL, threw |-> FALSE]
        /\ held' = Detached(held)
        /\ UNCHANGED <<ecologyParams, config, home>>

\* mutant: swapping the parameters restarts the populations
UpdateParamsRestarts(p) ==
    /\ ecologyParams' = p
    /\ populations' = initialPopulations
    /\ call' = [op |-> "updateParams", arg |-> Some(p), duration |-> NULL,
                timeToNext |-> NULL, rand |-> NULL, ret |-> NULL, threw |-> FALSE]
    /\ UNCHANGED <<config, initialPopulations, extinctionThresholds, time,
                   hurricanes, extinctSpecies, history, held, home>>

\* updateParams(params)
UpdateParams(p) ==
    /\ ecologyParams' = p
    /\ call' = [op |-> "updateParams", arg |-> Some(p), duration |-> NULL,
                timeToNext |-> NULL, rand |-> NULL, ret |-> NULL, threw |-> FALSE]
    /\ UNCHANGED <<config, initialPopulations, extinctionThresholds, time,
                   populations, hurricanes, extinctSpecies, history, held, home>>

\* updateConfig(config)
UpdateConfig(partial) ==
    /\ config' = mergeConfig(config, partial)
    /\ call' = [op |-> "updateConfig", arg |-> Some(partial), duration |-> NULL,
                timeToNext |-> NULL, rand |-> NULL, ret |-> NULL, threw |-> FALSE]
    /\ UNCHANGED <<ecologyParams, initialPopulations, extinctionThresholds, time,
                   populations, hurricanes, extinctSpecies, history, held, home>>

\* step from const actualEndTime = nextHurricaneTime ?? endTime on: the
\* integration, then the hurricane.  When drawHurricaneDamage throws, the call
\* ends there: what the integration assigned stays assigned and nothing of the
\* shock is done.
stepFrom(duration, rand, timeToNext, endTime, nextHurricaneTime) ==
    LET hurricaneCategories == config.hurricaneCategories
        startTime == time
        actualEndTime ==
            IF nextHurricaneTime # NULL THEN nextHurricaneTime[1] ELSE endTime
        integrates == Integrates(actualEndTime, startTime)
        throws == nextHurricaneTime # NULL /\ DrawThrows(hurricaneCategories)
        segment(solution, hit) ==
            LET history1 == IF integrates THEN PushSolution(history, solution)
                            ELSE history
                populations1 == IF integrates THEN Last(solution).y ELSE populations
            IN  /\ time' = IF integrates THEN actualEndTime ELSE time
                /\ IF nextHurricaneTime # NULL /\ ~throws
                   THEN /\ hurricanes' = Append(hurricanes,
                               HurricaneRecord(nextHurricaneTime[1], hit))
                        /\ populations' =
                               PopulationsAfterShock(populations1, extinctionThresholds,
                                                     hit.damage)
                        /\ extinctSpecies' =
                               ExtinctAfterShock(extinctSpecies, populations1,
                                                 extinctionThresholds, hit.damage)
                        /\ history' = Append(history1,
                               [t |-> ShockSampleTime(nextHurricaneTime[1]),
                                y |-> populations'])
                   ELSE /\ populations' = populations1
                        /\ history' = history1
                        /\ UNCHANGED <<hurricanes, extinctSpecies>>
                /\ call' = [op |-> "step", arg |-> NULL, duration |-> Some(duration),
                            timeToNext |-> IF Drawn(config.hurricaneRate)
                                           THEN Some(timeToNext) ELSE NULL,
                            rand |-> IF nextHurricaneTime # NULL THEN Some(rand)
                                     ELSE NULL,
                            ret |-> IF throws THEN NULL ELSE nextHurricaneTime,
                            threw |-> throws]
    IN  segment(solveODE(populations, startTime, actualEndTime, config.timeStep,
                         ecologyParams),
                drawHurricaneDamage(hurricaneCategories, rand))

\* step(duration); expDraw and rand are the values the two Math.random() calls
\* yield, read only where the code makes the call
stepCall(duration, expDraw, rand) ==
    /\ LET hurricaneRate == config.hurricaneRate
           startTime == time
           endTime == Add64(startTime, duration)
           timeToNext == randomExponential(hurricaneRate, expDraw)
           \* the candidate event time, dropped when it is past endTime
           candidate(next) ==
               IF Drawn(hurricaneRate) /\ Retained(next, endTime) THEN Some(next)
               ELSE NULL
       IN  stepFrom(duration, rand, timeToNext, endTime,
                    candidate(Add64(startTime, timeToNext)))
    /\ UNCHANGED <<ecologyParams, config, initialPopulations, extinctionThresholds>>

\* a step call on an engine of its own: what the caller holds stays as it is
Step(duration, expDraw, rand) ==
    /\ Len(history) < MaxHist
    /\ stepCall(duration, expDraw, rand)
    /\ UNCHANGED <<held, home>>

Next ==
    \/ \E d \in Durations, e \in ExpDraws, u \in Rands : Step(d, e, u)
    \/ \E p \in ParamSets : UpdateParams(p)
    \/ \E c \in Partials : UpdateConfig(c)
    \/ \E p \in {NULL} \cup {Some(q) : q \in InitPops} : Reset(p)

Spec == Init /\ [][Next]_vars

\* the engine driven without updateConfig: the configuration stays the one it
\* was constructed with
NextFixedConfig ==
    \/ \E d \in Durations, e \in ExpDraws, u \in Rands : Step(d, e, u)
    \/ \E p \in ParamSets : UpdateParams(p)
    \/ \E p \in {NULL} \cup {Some(q) : q \in InitPops} : Reset(p)

SpecFixedConfig == Init /\ [][NextFixedConfig]_vars

\* an accessor call or a caller's write: nothing but the fields it names
Observed(op) ==
    [op |-> op, arg |-> NULL, duration |-> NULL, timeToNext |-> NULL,
     rand |-> NULL, ret |-> NULL, threw |-> FALSE]

\* getState(): the populations array, the extinct set, the history array, its
\* samples and their vectors are new objects; the hurricane array is new and
\* its elements are the engine's event objects
GetState ==
    /\ held' = Some([time |-> time,
                     populations |-> populations,
                     hurricanes |-> CopyOfHurricanes,
                     extinctSpecies |-> extinctSpecies,
                     history |-> history])
    /\ call' = Observed("getState")
    /\ UNCHANGED <<ecologyParams, config, initialPopulations, extinctionThresholds,
                   time, populations, hurricanes, extinctSpecies, history, home>>

\* getPopulations(): a new array
GetPopulations ==
    /\ held' = Some([populations |-> populations])
    /\ call' = Observed("getPopulations")
    /\ UNCHANGED <<ecologyParams, config, initialPopulations, extinctionThresholds,
                   time, populations, hurricanes, extinctSpecies, history, home>>

\* getHurricanes(): a new array of the engine's event objects
GetHurricanes ==
    /\ held' = Some([hurricanes |-> CopyOfHurricanes])
    /\ call' = Observed("getHurricanes")
    /\ UNCHANGED <<ecologyParams, config, initialPopulations, extinctionThresholds,
                   time, populations, hurricanes, extinctSpecies, history, home>>

\* the caller writes returned.populations[i] = v (or returned[i] = v on the
\* array getPopulations returned)
CallerWritesPopulation(i, v) ==
    /\ held # NULL
    /\ "populations" \in DOMAIN held[1]
    /\ held' = Some([held[1] EXCEPT !.populations[i] = v])
    /\ call' = Observed("write populations")
    /\ UNCHANGED <<ecologyParams, config, initialPopulations, extinctionThresholds,
                   time, populations, hurricanes, extinctSpecies, history, home>>

\* the caller writes returned.history[k].y[i] = v
CallerWritesHistory(k, i, v) ==
    /\ held # NULL
    /\ "history" \in DOMAIN held[1]
    /\ k \in DOMAIN held[1].history
    /\ held' = Some([held[1] EXCEPT !.history[k].y[i] = v])
    /\ call' = Observed("write history")
    /\ UNCHANGED <<ecologyParams, config, initialPopulations, extinctionThresholds,
                   time, populations, hurricanes, extinctSpecies, history, home>>

\* the caller calls returned.extinctSpecies.add(i)
CallerAddsExtinct(i) ==
    /\ held # NULL
    /\ "extinctSpecies" \in DOMAIN held[1]
    /\ held' = Some([held[1] EXCEPT !.extinctSpecies = @ \cup {i}])
    /\ call' = Observed("write extinctSpecies")
    /\ UNCHANGED <<ecologyParams, config, initialPopulations, extinctionThresholds,
                   time, populations, hurricanes, extinctSpecies, history, home>>

\* the caller calls pop() on the returned hurricane array
CallerPopsHurricanes ==
    /\ held # NULL
    /\ "hurricanes" \in DOMAIN held[1]
    /\ Len(held[1].hurricanes) > 0
    /\ held' = Some([held[1] EXCEPT !.hurricanes = SubSeq(@, 1, Len(@) - 1)])
    /\ call' = Observed("write hurricanes")
    /\ UNCHANGED <<ecologyParams, config, initialPopulations, extinctionThresholds,
                   time, populations, hurricanes, extinctSpecies, history, home>>

\* the caller writes returned[k].damage = v on an element of a returned
\* hurricane array: the write goes to the object the element is
CallerWritesEvent(k, v) ==
    /\ held # NULL
    /\ "hurricanes" \in DOMAIN held[1]
    /\ k \in DOMAIN held[1].hurricanes
    /\ LET el == held[1].hurricanes[k]
       IN  IF "ref" \in DOMAIN el
           THEN /\ hurricanes' = [hurricanes EXCEPT ![el.ref].damage = v]
                /\ held' = held
           ELSE /\ held' = Some([held[1] EXCEPT !.hurricanes[k].own.damage = v])
                /\ hurricanes' = hurricanes
    /\ call' = Observed("write event")
    /\ UNCHANGED <<ecologyParams, config, initialPopulations, extinctionThresholds,
                   time, populations, extinctSpecies, history, home>>

\* the values the caller writes
Written == {Zero}

\* the engine stepped and reset, read through its accessors by a caller who
\* writes to what they returned
NextAccessors ==
    \/ \E e \in {Zero, Two} : Step(Dbl(700), e, Dbl(500))
    \/ Reset(NULL)
    \/ GetState
    \/ GetPopulations
    \/ GetHurricanes
    \/ \E v \in Written : CallerWritesPopulation(0, v)
    \/ \E v \in Written : CallerWritesHistory(1, 0, v)
    \/ CallerAddsExtinct(0)
    \/ CallerPopsHurricanes
    \/ \E v \in Written : CallerWritesEvent(1, v)

SpecAccessors == Init /\ [][NextAccessors]_vars

(***************************************************************************)
(* The functions of ecologyModel.ts, odeSolver.ts and networkBuilder.ts    *)
(* applied on their own: call holds the function's name and arguments, and *)
(* its result once it has been applied; no engine is run.                  *)
(***************************************************************************)

\* the engine's variables while no engine is run
engineVars == <<ecologyParams, config, initialPopulations, extinctionThresholds,
                time, populations, hurricanes, extinctSpecies, history, held, home>>

NoEngine ==
    /\ ecologyParams = NULL
    /\ config = NULL
    /\ initialPopulations = NULL
    /\ extinctionThresholds = NULL
    /\ time = Zero
    /\ populations = NULL
    /\ hurricanes = <<>>
    /\ extinctSpecies = {}
    /\ history = <<>>
    /\ held = NULL
    /\ home = NULL

\* a function about to be applied to args
Applying(fn, args) ==
    [op |-> fn, arg |-> Some(args), duration |-> NULL, timeToNext |-> NULL,
     rand |-> NULL, ret |-> NULL, threw |-> FALSE]

\* mutualism and competition together
ParamsBoth ==
    [Y_mut |-> [i \in Species |-> [j \in Species |-> IF i = j THEN Zero ELSE Dbl(500)]],
     Y_comp |-> [i \in Species |-> [j \in Species |-> IF i = j THEN Zero ELSE Dbl(-250)]],
     r |-> [i \in Species |-> IF i = 0 THEN Dbl(500) ELSE Dbl(250)],
     h |-> [i \in Species |-> Dbl(500)]]

\* population vectors with negative entries included
InitEco ==
    /\ NoEngine
    /\ call \in {Applying("ecoDynamicsTypeII", [N |-> N, params |-> p]) :
                    N \in [Species -> {Dbl(-500), Zero, Dbl(250), One, Two}],
                    p \in {ParamsMut, ParamsComp, ParamsBoth}}

ApplyEco ==
    /\ call.op = "ecoDynamicsTypeII"
    /\ call.ret = NULL
    /\ call' = [call EXCEPT
                  !.ret = Some(ecoDynamicsTypeII(Zero, call.arg[1].N, call.arg[1].params))]
    /\ UNCHANGED engineVars

SpecEco == InitEco /\ [][ApplyEco]_vars

\* solveODE(f, y0, t0, t1, dt, params) with f = ecoDynamicsTypeII
SolveInputs ==
    {[y0 |-> y0, t0 |-> t0, t1 |-> t1, dt |-> dt, params |-> p] :
        y0 \in InitPops, t0 \in {Zero, Dbl(332)}, t1 \in {Dbl(332), Dbl(918), One},
        dt \in {Dbl(100), Dbl(250), Dbl(829)}, p \in {ParamsMut, ParamsComp}}

InitSolve ==
    /\ NoEngine
    /\ call \in {Applying("solveODE", a) : a \in SolveInputs}

ApplySolve ==
    /\ call.op = "solveODE"
    /\ call.ret = NULL
    /\ call' = [call EXCEPT
                  !.ret = Some(solveODE(call.arg[1].y0, call.arg[1].t0, call.arg[1].t1,
                                        call.arg[1].dt, call.arg[1].params))]
    /\ UNCHANGED engineVars

SpecSolve == InitSolve /\ [][ApplySolve]_vars

\* three categories whose probabilities sum to 0.9
CatsC == <<[name |-> "Category 1", probability |-> Dbl(200), damage |-> Dbl(100)],
           [name |-> "Category 2", probability |-> Dbl(300), damage |-> Dbl(500)],
           [name |-> "Category 3", probability |-> Dbl(400), damage |-> Dbl(900)]>>

\* a first category of probability 0
CatsD == <<[name |-> "Category 4", probability |-> Zero, damage |-> Dbl(950)],
           [name |-> "Category 5", probability |-> One, damage |-> Dbl(990)]>>

\* probabilities 0.1, 0.7 and 0.2: the running sum after two categories is
\* 0.7999999999999999
CatsE == <<[name |-> "Category 1", probability |-> Dbl(100), damage |-> Dbl(100)],
           [name |-> "Category 2", probability |-> Dbl(700), damage |-> Dbl(500)],
           [name |-> "Category 3", probability |-> Dbl(200), damage |-> Dbl(900)]>>

\* the values of Math.random() are in [0, 1)
InitDraw ==
    /\ NoEngine
    /\ call \in {Applying("drawHurricaneDamage", [categories |-> cs, rand |-> u]) :
                    cs \in {CatsA, CatsB, CatsC, CatsD, CatsE},
                    u \in {Dbl(n) : n \in {0, 1, 199, 200, 201, 300, 499, 500, 501,
                                           799, 800, 801, 899, 900, 901, 999}}}

ApplyDraw ==
    /\ call.op = "drawHurricaneDamage"
    /\ call.ret = NULL
    /\ call' = [call EXCEPT
                  !.ret = Some(drawHurricaneDamage(call.arg[1].categories, call.arg[1].rand))]
    /\ UNCHANGED engineVars

SpecDraw == InitDraw /\ [][ApplyDraw]_vars

\* biadjacency matrices: weights 0, 1 and 2
Matrix(rows) == Arr([i \in 0..(Len(rows) - 1) |->
                       Arr([j \in 0..(Len(rows[i + 1]) - 1) |-> rows[i + 1][j + 1]])])

PollinationMatrices ==
    {NULL} \cup {Matrix(<<<<a, b>>, <<c, e>>>>) : a \in {Zero, One}, b \in {Zero, Two},
                                                c \in {Zero, One}, e \in {Zero, One}}

DispersalMatrices ==
    {NULL, Matrix(<<<<One>>>>), Matrix(<<<<Zero, One, Two>>>>),
     Matrix(<<<<One, Zero>>, <<One, One>>, <<Zero, One>>>>)}

Networks == {[B |-> B, S |-> S] : B \in PollinationMatrices, S \in DispersalMatrices}

\* strengths of either sign
NetworkParamSets == {[m |-> m, d |-> d, c |-> c] :
                        m \in {Dbl(-500), Dbl(500)}, d \in {Dbl(-250), Dbl(250)},
                        c \in {Dbl(-100), Dbl(100)}}

ModelConfigs ==
    {[nSpecies |-> n, mutualisticStrength |-> m, competitionStrength |-> c] :
        n \in 1..4, m \in {Dbl(-500), Zero, Dbl(500)}, c \in {Dbl(-100), Zero, Dbl(100)}}

InitMatrices ==
    /\ NoEngine
    /\ call \in {Applying("buildInteractionMatrix", [network |-> nw, params |-> p]) :
                     nw \in Networks, p \in NetworkParamSets}
             \cup {Applying("generateInteractionMatrices", cfg) : cfg \in ModelConfigs}

ApplyBuild ==
    /\ call.op = "buildInteractionMatrix"
    /\ call.ret = NULL
    /\ ~call.threw
    /\ call' = IF BuildThrows(call.arg[1].network)
               THEN [call EXCEPT !.threw = TRUE]
               ELSE [call EXCEPT !.ret = Some(buildInteractionMatrix(call.arg[1].network,
                                                                      call.arg[1].params))]
    /\ UNCHANGED engineVars

ApplyGenerate ==
    /\ call.op = "generateInteractionMatrices"
    /\ call.ret = NULL
    /\ call' = [call EXCEPT !.ret = Some(generateInteractionMatrices(call.arg[1]))]
    /\ UNCHANGED engineVars

NextMatrices == ApplyBuild \/ ApplyGenerate

SpecMatrices == InitMatrices /\ [][NextMatrices]_vars

\* the engine stepped under any of the category lists a caller may configure;
\* the engine checks none of them
NextAnyCategories ==
    \/ \E d \in Durations, e \in ExpDraws, u \in Rands : Step(d, e, u)
    \/ \E cs \in {<<>>, CatsA, CatsB} : UpdateConfig([hurricaneCategories |-> cs])

SpecAnyCategories == Init /\ [][NextAnyCategories]_vars

\* 2^-60: a number so small that adding it to the time 0.5 gives 0.5
Eps == Div64(Div64(One, Int64(1073741824)), Int64(1073741824))

\* the engine stepped with durations and waiting times that
\* startTime + duration and startTime + timeToNext round away.  The waiting
\* times are values of -Math.log(1 - Math.random()): 0, the least positive
\* one 2^-53 (which the time 0.5 does not absorb), and 2
NextAbsorbed ==
    \E d \in {Neg64(Eps), Zero, Dbl(500)},
       e \in {Zero, Mul64(Eps, Int64(128)), Two}, u \in Rands :
        Step(d, e, u)

SpecAbsorbed == Init /\ [][NextAbsorbed]_vars

(***************************************************************************)
(* defaultNetwork.ts, createEcologyParams and Home.tsx: the page that owns *)
(* the engine.  home holds the values the setters were last handed;        *)
(* home.rendered holds the values of the last render, which the effects    *)
(* and the animation callback closed over, and home.paramsSet tells that   *)
(* setParams stored a new object since.  A handler of a click or of a      *)
(* change event is one action with its render and effects: React renders   *)
(* those updates, and all queued ones, before the task ends.  The updates  *)
(* of handleNetworkLoaded (called after an await) and of a slider drag are *)
(* queued: the render and its effects are the later action Render, and a   *)
(* frame requested before may run in between.  home.stepsLeft is the       *)
(* position of the animation callback in its for loop (0 outside the       *)
(* callback), and nothing else runs while the callback does.               *)
(* home.uploadStatus is the uploadStatus of NetworkUpload, which decides    *)
(* whether the page shows the Clear button.                                 *)
(***************************************************************************)

\* generateDefaultNetwork: 3 plants, animals 0..2 pollinators, 3..5 dispersers
generateDefaultNetwork ==
    LET layer(edges) ==
            Arr([i \in 0..2 |-> Arr([j \in 0..5 |->
                    IF <<i, j>> \in edges THEN One ELSE Zero])])
    IN  [B |-> layer({<<0, 0>>, <<0, 1>>, <<1, 1>>, <<1, 2>>, <<2, 0>>, <<2, 2>>}),
         S |-> layer({<<0, 3>>, <<0, 4>>, <<1, 4>>, <<1, 5>>, <<2, 3>>, <<2, 5>>})]

\* 0.1 + Math.random() * 0.4 per species; rands[i] is the i-th Math.random()
initializeGrowthRates(nSpecies, rands) ==
    Arr([i \in 0..(nSpecies - 1) |-> Add64(Dbl(100), Mul64(rands[i], Dbl(400)))])

\* 0.3 + Math.random() * 0.7 per species
initializePopulations(nSpecies, rands) ==
    Arr([i \in 0..(nSpecies - 1) |-> Add64(Dbl(300), Mul64(rands[i], Dbl(700)))])

\* createEcologyParams after the matrices are chosen; draws.r and draws.N are
\* the values of Math.random()
ecologyParamsWith(matrices, cfg, draws) ==
    [params |-> [Y_mut |-> matrices.Y_mut,
                 Y_comp |-> matrices.Y_comp,
                 r |-> initializeGrowthRates(cfg.nSpecies, draws.r),
                 h |-> Arr([i \in 0..(cfg.nSpecies - 1) |-> cfg.halfSaturation])],
     initialPopulation |-> initializePopulations(cfg.nSpecies, draws.N)]

createEcologyParams(cfg, draws) ==
    ecologyParamsWith(IF cfg.customNetwork # NULL THEN cfg.customNetwork[1]
                      ELSE generateInteractionMatrices(cfg),
                      cfg, draws)

\* useState<ControlParams>({...})
initialParams ==
    [nSpecies |-> 4, mutualisticStrength |-> Dbl(500), dispersalStrength |-> Dbl(500),
     competitionStrength |-> Dbl(-100), halfSaturation |-> Dbl(500),
     hurricaneRate |-> Dbl(50),
     cat1Prob |-> Dbl(600), cat1Damage |-> Dbl(100),
     cat2Prob |-> Dbl(300), cat2Damage |-> Dbl(500),
     cat3Prob |-> Dbl(100), cat3Damage |-> Dbl(800), simulationSpeed |-> One]

\* the component after its first render, before the mount effect
initialHome ==
    [params |-> initialParams,
     customNetwork |-> generateDefaultNetwork,
     useCustomNetwork |-> TRUE,
     isRunning |-> FALSE,
     currentTime |-> Zero,
     populations |-> <<>>,
     history |-> <<>>,
     hurricanes |-> <<>>,
     extinctSpecies |-> {},
     actualNSpecies |-> 9,
     networkVersion |-> 0,
     stepsLeft |-> 0,
     draws |-> NULL,
     paramsSet |-> FALSE,
     uploadStatus |-> [B |-> FALSE, S |-> FALSE],
     rendered |-> [params |-> initialParams, isRunning |-> FALSE,
                   useCustomNetwork |-> TRUE, networkVersion |-> 0,
                   uploadStatus |-> [B |-> FALSE, S |-> FALSE]],
     event |-> "mount"]

\* handleParamChange: the share of `remaining` given to a category whose
\* probability was prob, the two other categories summing to total
redistributed(prob, total, remaining) ==
    IF Less64(Zero, total) THEN Mul64(Div64(prob, total), remaining)
    ELSE Div64(remaining, Two)

\* the updater handleParamChange passes to setParams
setParamsUpdater(prev, param, value) ==
    LET remaining == Sub64(One, value)
    IN  IF param = "cat1Prob"
        THEN [prev EXCEPT
                !.cat1Prob = value,
                !.cat2Prob = redistributed(prev.cat2Prob,
                                  Add64(prev.cat2Prob, prev.cat3Prob), remaining),
                !.cat3Prob = redistributed(prev.cat3Prob,
                                  Add64(prev.cat2Prob, prev.cat3Prob), remaining)]
        ELSE IF param = "cat2Prob"
        THEN [prev EXCEPT
                !.cat2Prob = value,
                !.cat1Prob = redistributed(prev.cat1Prob,
                                  Add64(prev.cat1Prob, prev.cat3Prob), remaining),
                !.cat3Prob = redistributed(prev.cat3Prob,
                                  Add64(prev.cat1Prob, prev.cat3Prob), remaining)]
        ELSE IF param = "cat3Prob"
        THEN [prev EXCEPT
                !.cat3Prob = value,
                !.cat1Prob = redistributed(prev.cat1Prob,
                                  Add64(prev.cat1Prob, prev.cat2Prob), remaining),
                !.cat2Prob = redistributed(prev.cat2Prob,
                                  Add64(prev.cat1Prob, prev.cat2Prob), remaining)]
        ELSE [prev EXCEPT ![param] = value]

\* initializeEngine: "Normalize hurricane probabilities"
normalizedCategories(p) ==
    LET normalized(totalProb) ==
            <<[name |-> "Category 1",
               probability |-> IF Less64(Zero, totalProb)
                              THEN Div64(p.cat1Prob, totalProb) ELSE Dbl(330),
               damage |-> p.cat1Damage],
              [name |-> "Category 2",
               probability |-> IF Less64(Zero, totalProb)
                              THEN Div64(p.cat2Prob, totalProb) ELSE Dbl(330),
               damage |-> p.cat2Damage],
              [name |-> "Category 3",
               probability |-> IF Less64(Zero, totalProb)
                              THEN Div64(p.cat3Prob, totalProb) ELSE Dbl(340),
               damage |-> p.cat3Damage]>>
    IN  normalized(Add64(Add64(p.cat1Prob, p.cat2Prob), p.cat3Prob))

\* the state engine.getState() returns, as the five setters store it
displayed(h, state) ==
    [h EXCEPT !.currentTime = state.time,
              !.populations = state.populations,
              !.history = state.history,
              !.hurricanes = state.hurricanes,
              !.extinctSpecies = state.extinctSpecies]

\* initializeEngine: modelConfig; built is the result of
\* buildInteractionMatrix, or NULL when no custom network is used
modelConfigOf(p, built) ==
    [nSpecies |-> IF built # NULL THEN built[1].nSpecies ELSE p.nSpecies,
     mutualisticStrength |-> p.mutualisticStrength,
     dispersalStrength |-> p.dispersalStrength,
     competitionStrength |-> p.competitionStrength,
     halfSaturation |-> p.halfSaturation,
     customNetwork |-> IF built # NULL
                       THEN Some([Y_mut |-> built[1].Y_mut, Y_comp |-> built[1].Y_comp])
                       ELSE NULL]

\* initializeEngine: the configuration the engine is constructed with
engineConfigOf(p) ==
    [hurricaneRate |-> p.hurricaneRate,
     hurricaneCategories |-> normalizedCategories(p),
     extinctionThreshold |-> Dbl(10),
     timeStep |-> Dbl(10)]

\* the state of a SimulationEngine after its constructor
constructedState(initialPopulation) ==
    [time |-> Zero,
     populations |-> initialPopulation,
     hurricanes |-> <<>>,
     extinctSpecies |-> {},
     history |-> <<[t |-> Zero, y |-> initialPopulation]>>]

\* initializeEngine from createEcologyParams on: the fields of the new engine
\* and the component after the setters
engineFrom(h, draws, eco, cfg) ==
    [ecologyParams |-> eco.params,
     config |-> cfg,
     initialPopulations |-> eco.initialPopulation,
     extinctionThresholds |-> thresholdsOf(eco.initialPopulation, cfg),
     state |-> constructedState(eco.initialPopulation),
     home |-> displayed([h EXCEPT !.actualNSpecies = Cardinality(DOMAIN eco.initialPopulation),
                                  !.draws = Some(draws)],
                        constructedState(eco.initialPopulation))]

\* initializeEngine run by the component h with the Math.random() values draws
initializeEngine(h, draws) ==
    engineFrom(h, draws,
        createEcologyParams(
            modelConfigOf(h.params,
                IF h.useCustomNetwork /\ h.customNetwork # NULL
                THEN Some(buildInteractionMatrix(h.customNetwork,
                              [m |-> h.params.mutualisticStrength,
                               d |-> h.params.dispersalStrength,
                               c |-> h.params.competitionStrength]))
                ELSE NULL),
            draws),
        engineConfigOf(h.params))

\* mutant: the dependency list is compared by value
depsChangedByValue(paramsSet, prev, next) ==
    \/ prev.params # next.params
    \/ prev.useCustomNetwork # next.useCustomNetwork
    \/ prev.networkVersion # next.networkVersion

\* useCallback(..., [params, useCustomNetwork, networkVersion]) and the
\* effect that depends on it: initializeEngine runs again after a render in
\* which one of the three differs; every setParams stores a new object,
\* whatever the values in it
depsChanged(paramsSet, prev, next) ==
    \/ paramsSet
    \/ prev.useCustomNetwork # next.useCustomNetwork
    \/ prev.networkVersion # next.networkVersion

\* engineRef.current = new SimulationEngine(...) and the setters
Installed(e, event) ==
    /\ ecologyParams' = e.ecologyParams
    /\ config' = e.config
    /\ initialPopulations' = e.initialPopulations
    /\ extinctionThresholds' = e.extinctionThresholds
    /\ time' = e.state.time
    /\ populations' = e.state.populations
    /\ hurricanes' = e.state.hurricanes
    /\ extinctSpecies' = e.state.extinctSpecies
    /\ history' = e.state.history
    /\ home' = [e.home EXCEPT !.event = event]
    /\ call' = Observed("constructor")
    /\ UNCHANGED held

\* a render of the component next with its effects: initializeEngine runs if
\* its dependencies changed since the last render, or if the handler called
\* it (called); the effects close over the values rendered
Rendered(next, draws, event, called) ==
    LET h == [next EXCEPT !.paramsSet = FALSE,
                          !.rendered = [params |-> next.params,
                                        isRunning |-> next.isRunning,
                                        useCustomNetwork |-> next.useCustomNetwork,
                                        networkVersion |-> next.networkVersion,
                                        uploadStatus |-> next.uploadStatus]]
    IN  IF called \/ depsChanged(next.paramsSet, next.rendered, next)
        THEN Installed(initializeEngine(h, draws), event)
        ELSE /\ home' = [h EXCEPT !.event = event]
             /\ UNCHANGED <<ecologyParams, config, initialPopulations,
                            extinctionThresholds, time, populations, hurricanes,
                            extinctSpecies, history, call, held>>

\* the values Math.random() yields in createEcologyParams
RandomDraws ==
    {[r |-> Arr([i \in 0..8 |-> Zero]), N |-> Arr([i \in 0..8 |-> Zero])],
     [r |-> Arr([i \in 0..8 |-> Dbl(500)]),
      N |-> Arr([i \in 0..8 |-> IF i % 2 = 0 THEN Dbl(999) ELSE Dbl(250)])]}

\* the control changes tried: the speed, a damage that wipes a population out,
\* and a category probability set to the value it has, which the updater
\* redistributes to the probabilities there were: (0.6 / 0.7) * 0.7 is 0.6
ParamChanges ==
    {<<"simulationSpeed", Dbl(500)>>, <<"cat1Damage", One>>, <<"cat2Prob", Dbl(300)>>}

\* a network NetworkUpload hands over: at least one layer is parsed
UploadedNetworks == {[B |-> Matrix(<<<<One>>>>), S |-> NULL]}

\* the most network loads and clears followed
MaxVersion == 2

\* a network is loaded while fewer than MaxLoads loads and clears were made
MaxLoads == 1

\* the engine e and its component, in place
InPlace(e) ==
    /\ ecologyParams = e.ecologyParams
    /\ config = e.config
    /\ initialPopulations = e.initialPopulations
    /\ extinctionThresholds = e.extinctionThresholds
    /\ time = e.state.time
    /\ populations = e.state.populations
    /\ hurricanes = e.state.hurricanes
    /\ extinctSpecies = e.state.extinctSpecies
    /\ history = e.state.history
    /\ home = e.home
    /\ call = Observed("constructor")
    /\ held = NULL

\* the component after mount: the effect has run initializeEngine
InitHome == \E draws \in RandomDraws : InPlace(initializeEngine(initialHome, draws))

\* handleParamChange(param, value).  The speed is a range input whose change
\* event is rendered at once; the other controls are sliders, whose drag
\* leaves the update queued.
HandleParamChange(param, value, draws) ==
    /\ home.stepsLeft = 0
    /\ LET next == [home EXCEPT
                       !.params = setParamsUpdater(home.params, param, value),
                       !.paramsSet = TRUE]
       IN  IF param = "simulationSpeed"
           THEN Rendered(next, draws, "handleParamChange", FALSE)
           ELSE /\ home' = [next EXCEPT !.event = "handleParamChange"]
                /\ UNCHANGED <<ecologyParams, config, initialPopulations,
                               extinctionThresholds, time, populations, hurricanes,
                               extinctSpecies, history, call, held>>

\* handleNetworkLoaded(network), called by handleFileUpload after its await
\* and its setUploadStatus for the layer read: the updates are queued
HandleNetworkLoaded(network) ==
    /\ home.stepsLeft = 0
    /\ home.networkVersion < MaxLoads
    /\ home' = [home EXCEPT !.uploadStatus = [B |-> @.B \/ network.B # NULL,
                                              S |-> @.S \/ network.S # NULL],
                            !.customNetwork = network,
                            !.useCustomNetwork = TRUE,
                            !.isRunning = FALSE,
                            !.networkVersion = @ + 1,
                            !.event = "handleNetworkLoaded"]
    /\ UNCHANGED <<ecologyParams, config, initialPopulations, extinctionThresholds,
                   time, populations, hurricanes, extinctSpecies, history, call, held>>

\* the render of queued updates and its effects, in a later task
Render(draws) ==
    /\ home.stepsLeft = 0
    /\ home.paramsSet \/ home.networkVersion # home.rendered.networkVersion
    /\ Rendered(home, draws, "render", FALSE)

\* handleClearNetwork(), called by handleClear on the click of Clear, a
\* button rendered while uploadStatus.B || uploadStatus.S
HandleClearNetwork(draws) ==
    /\ home.stepsLeft = 0
    /\ home.networkVersion < MaxVersion
    /\ home.rendered.uploadStatus.B \/ home.rendered.uploadStatus.S
    /\ Rendered([home EXCEPT !.uploadStatus = [B |-> FALSE, S |-> FALSE],
                             !.customNetwork = generateDefaultNetwork,
                             !.useCustomNetwork = TRUE,
                             !.isRunning = FALSE,
                             !.networkVersion = @ + 1],
                draws, "handleClearNetwork", FALSE)

\* handleStart(), the click of the Start button, rendered while not running
HandleStart(draws) ==
    /\ home.stepsLeft = 0
    /\ ~home.rendered.isRunning
    /\ Rendered([home EXCEPT !.isRunning = TRUE], draws, "handleStart", FALSE)

\* handlePause(), the click of the Pause button, rendered while running
HandlePause(draws) ==
    /\ home.stepsLeft = 0
    /\ home.rendered.isRunning
    /\ Rendered([home EXCEPT !.isRunning = FALSE], draws, "handlePause", FALSE)

\* handleReset(): initializeEngine is called by the handler itself
HandleReset(draws) ==
    /\ home.stepsLeft = 0
    /\ Rendered([home EXCEPT !.isRunning = FALSE], draws, "handleReset", TRUE)

\* Math.max(1, Math.floor(params.simulationSpeed * 2))
stepsPerFrame(p) == Max(1, Floor64(Mul64(p.simulationSpeed, Two)))

\* one iteration of the for loop of animate, engineRef.current.step(0.01);
\* the last iteration is followed by the setters.  The callback is the one of
\* the last render: it runs while that render had isRunning, with the speed
\* of that render.  A frame is begun while the history holds fewer than
\* MaxHist samples.
Animate(expDraw, rand) ==
    /\ home.rendered.isRunning
    /\ LET steps == stepsPerFrame(home.rendered.params)
           left == IF home.stepsLeft = 0 THEN steps ELSE home.stepsLeft
       IN  /\ home.stepsLeft = 0 => Len(history) < MaxHist
           /\ stepCall(Dbl(10), expDraw, rand)
           /\ home' = IF left = 1
                      THEN displayed([home EXCEPT !.stepsLeft = 0, !.event = "animate"],
                                     [time |-> time', populations |-> populations',
                                      hurricanes |-> hurricanes',
                                      extinctSpecies |-> extinctSpecies',
                                      history |-> history'])
                      ELSE [home EXCEPT !.stepsLeft = left - 1, !.event = "animate"]
           /\ UNCHANGED held

\* the last disjunct draws the waiting time and the category of a step of a frame
NextHome ==
    \/ \E c \in ParamChanges, draws \in RandomDraws : HandleParamChange(c[1], c[2], draws)
    \/ \E nw \in UploadedNetworks : HandleNetworkLoaded(nw)
    \/ \E draws \in RandomDraws : Render(draws)
    \/ \E draws \in RandomDraws : HandleClearNetwork(draws)
    \/ \E draws \in RandomDraws : HandleStart(draws)
    \/ \E draws \in RandomDraws : HandlePause(draws)
    \/ \E draws \in RandomDraws : HandleReset(draws)
    \/ \E e \in {Zero, Dbl(700)}, u \in {Dbl(500)} : Animate(e, u)

SpecHome == InitHome /\ [][NextHome]_vars

\* the page as the browser schedules it: the animation callback runs to its
\* end once begun, and React runs a queued render.  These are the weak
\* fairness of the steps of a frame begun and of Render, written with the
\* guards of the two actions for ENABLED and with the event they leave for
\* the step.
SpecHomeFair ==
    /\ SpecHome
    /\ \/ []<>(home.stepsLeft = 0)
       \/ []<><<home.stepsLeft > 0 /\ home'.event = "animate">>_vars
    /\ \/ []<>((home.stepsLeft > 0) \/
                (~home.paramsSet /\ (home.networkVersion = home.rendered.networkVersion)))
       \/ []<><<home'.event = "render">>_vars


(***************************************************************************)
(* Properties of the engine.                                               *)
(***************************************************************************)

IsPrefix(s, t) == Len(s) <= Len(t) /\ SubSeq(t, 1, Len(s)) = s

\* the next state is the result of a step call
StepCalled == call'.op = "step"

\* the next state is the result of a step call that applied a shock
ShockApplied == call'.op = "step" /\ call'.ret # NULL

\* the populations a shock was applied to: the sample before the post-shock one
PreShock == history'[Len(history') - 1].y

\* C1 Extinction monotonicity: across step, updateParams and updateConfig (no
\* reset) the extinct-species set never loses an index.
C1_ExtinctionMonotone ==
    [][call'.op # "reset" => extinctSpecies \subseteq extinctSpecies']_vars

\* a non-empty extinct set has lived through a later step that integrated and
\* applied no shock
C1_Witness ==
    /\ extinctSpecies # {}
    /\ call.op = "step"
    /\ call.ret = NULL
    /\ hurricanes # <<>>
    /\ Less64(Last(hurricanes).time, time)

\* C2 Absorbing zero at engine level: once populations[i] is 0 it is 0 after
\* every later step, updateParams and updateConfig (no reset), whatever the
\* other populations, the time step and the shocks.
C2_AbsorbingZero ==
    [][call'.op # "reset" =>
          \A i \in DOMAIN populations :
              populations[i] = Zero => populations'[i] = Zero]_vars

\* a step integrated over a positive time span with species i at 0 and a
\* mutualistic partner present, and i is still at 0
C2_Witness ==
    /\ call.op = "step"
    /\ Len(history) >= 2
    /\ Less64(history[Len(history) - 1].t, Last(history).t)
    /\ \E i, j \in DOMAIN populations :
          /\ history[Len(history) - 1].y[i] = Zero
          /\ populations[i] = Zero
          /\ Less64(Zero, populations[j])
          /\ Less64(Zero, ecologyParams.Y_mut[i][j])

\* C3 Shock application: a shock of damage d stores 0 and marks i extinct if
\* pop[i]*(1-d) < initialPopulation[i]*extinctionThresholdFraction, and
\* otherwise stores pop[i]*(1-d) and leaves i's membership unchanged.
C3_ShockApplication ==
    [][ShockApplied =>
          \A i \in DOMAIN populations :
              LET d == Last(hurricanes').damage
                  newPop == Mul64(PreShock[i], Sub64(One, d))
                  threshold == Mul64(initialPopulations[i], config.extinctionThreshold)
              IN  IF Less64(newPop, threshold)
                  THEN populations'[i] = Zero /\ i \in extinctSpecies'
                  ELSE /\ populations'[i] = newPop
                       /\ (i \in extinctSpecies' <=> i \in extinctSpecies)]_vars

\* C4 After a step, every species whose population is below
\* initialPopulation[i]*extinctionThresholdFraction is in the extinct set,
\* whether it declined by a shock or by the continuous dynamics.
C4_BelowThresholdIsExtinct ==
    call.op = "step" =>
        \A i \in DOMAIN populations :
            Less64(populations[i],
                   Mul64(initialPopulations[i], config.extinctionThreshold))
                => i \in extinctSpecies

\* C5 Per-shock bookkeeping: step returns an event time T iff it applied a
\* shock; it then appended exactly one record (T, label, damage) of a
\* configured category to the hurricane log and the sample (T, post-shock
\* populations) as the last element of history; when it returns null the
\* hurricane log and the extinct set are unchanged.
C5_ShockBookkeeping ==
    [][StepCalled =>
          /\ (call'.ret # NULL <=> Len(hurricanes') > Len(hurricanes))
          /\ IF call'.ret # NULL
             THEN /\ \E k \in 1 .. Len(config.hurricaneCategories) :
                        hurricanes' = Append(hurricanes,
                            [time |-> call'.ret[1],
                             category |-> config.hurricaneCategories[k].name,
                             damage |-> config.hurricaneCategories[k].damage])
                  /\ Len(history') > Len(history)
                  /\ Last(history') = [t |-> call'.ret[1], y |-> populations']
             ELSE /\ hurricanes' = hurricanes
                  /\ extinctSpecies' = extinctSpecies]_vars

\* a step integrated and then applied a shock: the log's last record and the
\* last history sample carry the returned time
C5_Witness ==
    /\ call.op = "step"
    /\ call.ret # NULL
    /\ Len(hurricanes) >= 1
    /\ Last(hurricanes).time = call.ret[1]
    /\ Len(history) >= 3
    /\ history[Len(history) - 1].t = Last(history).t
    /\ history[Len(history) - 1].y # Last(history).y

\* C6 Event retention and segment end: with rate > 0 and duration > 0, the
\* candidate startTime+w is retained iff it does not exceed
\* endTime = startTime+duration; integration runs from startTime to
\* min(candidate, endTime); afterwards the engine time is the event time if a
\* shock was applied and startTime+duration otherwise.
C6_EventRetention ==
    [][(StepCalled /\ Less64(Zero, config.hurricaneRate)
           /\ Less64(Zero, call'.duration[1])) =>
          LET startTime == time
              endTime == Add64(startTime, call'.duration[1])
              candidate == Add64(startTime, call'.timeToNext[1])
              segmentEnd == Min64(candidate, endTime)
          IN  /\ call'.timeToNext # NULL
              /\ Leq64(Zero, call'.timeToNext[1])
              /\ (call'.ret # NULL <=> Leq64(candidate, endTime))
              /\ (call'.ret # NULL => call'.ret[1] = candidate)
              /\ time' = segmentEnd
              /\ (Less64(startTime, segmentEnd) =>
                      /\ Len(history') > Len(history)
                      /\ Less64(startTime, history'[Len(history) + 1].t)
                      /\ \E k \in Len(history) + 1 .. Len(history') :
                            history'[k].t = segmentEnd)
              /\ time' = IF call'.ret # NULL THEN call'.ret[1] ELSE endTime]_vars

\* a candidate exactly at endTime was retained after a full-length integration
C6_Witness ==
    /\ call.op = "step"
    /\ call.ret # NULL
    /\ Less64(Zero, call.duration[1])
    /\ call.timeToNext = call.duration
    /\ time = call.ret[1]
    /\ Len(history) >= 3

\* C7 No events without a positive rate: a step made while hurricaneRate <= 0
\* draws no waiting time, applies no shock and returns null, so the hurricane
\* log and the extinct set stay as they were (empty on a fresh or reset
\* engine), whatever the duration.
C7_NoEventsWithoutRate ==
    [][(StepCalled /\ Leq64(config.hurricaneRate, Zero)) =>
          /\ call'.timeToNext = NULL
          /\ call'.ret = NULL
          /\ hurricanes' = hurricanes
          /\ extinctSpecies' = extinctSpecies]_vars

\* a step of positive duration ran under a negative rate and integrated
C7_Witness ==
    /\ call.op = "step"
    /\ Less64(config.hurricaneRate, Zero)
    /\ Less64(Zero, call.duration[1])
    /\ Less64(Zero, time)
    /\ hurricanes = <<>>
    /\ extinctSpecies = {}

\* C8 (as stated) History time order: the sample times in the history log are
\* strictly increasing.
C8_HistoryStrictlyIncreasing ==
    \A k \in 1 .. Len(history) - 1 : Less64(history[k].t, history[k + 1].t)

\* C8 (amended) The sample times are non-decreasing, and two consecutive
\* samples share a time only where that time is the event time of a logged
\* hurricane (the later sample is the one appended after the shock).
C8_HistoryNonDecreasing ==
    \A k \in 1 .. Len(history) - 1 :
        /\ Leq64(history[k].t, history[k + 1].t)
        /\ history[k].t = history[k + 1].t =>
              \E n \in 1 .. Len(hurricanes) : hurricanes[n].time = history[k + 1].t

\* integration samples followed by a post-shock sample at the time of the last
\* integration sample
C8_Witness ==
    /\ Len(history) >= 3
    /\ Less64(history[Len(history) - 2].t, history[Len(history) - 1].t)
    /\ history[Len(history) - 1].t = Last(history).t
    /\ Len(hurricanes) >= 1
    /\ Last(hurricanes).time = Last(history).t

\* C9 History is append-only and anchored: history[0] is always
\* (0, initial populations of the current run), and step, updateParams and
\* updateConfig keep the existing samples as a prefix of the new history.
C9_HistoryAppendOnly ==
    /\ history[1] = [t |-> Zero, y |-> initialPopulations]
    /\ [][/\ history'[1] = [t |-> Zero, y |-> initialPopulations']
          /\ call'.op # "reset" => IsPrefix(history, history')]_vars

\* a step appended samples after the anchor sample, and the populations have
\* moved away from the initial ones
C9_Witness ==
    /\ call.op = "step"
    /\ Len(history) >= 3
    /\ history[1] = [t |-> Zero, y |-> initialPopulations]
    /\ Last(history).y # initialPopulations

\* C10 (as stated) Hurricane log time order: the event times in the hurricane
\* log are strictly increasing, also with a drawn waiting time of 0.
C10_LogStrictlyIncreasing ==
    \A k \in 1 .. Len(hurricanes) - 1 :
        Less64(hurricanes[k].time, hurricanes[k + 1].time)

\* C10 (amended) The event times in the hurricane log are non-decreasing: an
\* applied shock's time is at least the previous event's time, and greater
\* when its drawn waiting time moves the time forward (startTime + w >
\* startTime).
C10_LogNonDecreasing ==
    [][(ShockApplied /\ hurricanes # <<>>) =>
          /\ hurricanes' = Append(hurricanes, Last(hurricanes'))
          /\ Leq64(Last(hurricanes).time, Last(hurricanes').time)
          /\ Less64(time, Add64(time, call'.timeToNext[1])) =>
                Less64(Last(hurricanes).time, Last(hurricanes').time)]_vars

\* a second event drawn with a positive waiting time follows an earlier one
C10_Witness ==
    /\ Len(hurricanes) >= 2
    /\ call.op = "step"
    /\ call.ret # NULL
    /\ Less64(Zero, call.timeToNext[1])
    /\ Less64(hurricanes[Len(hurricanes) - 1].time, Last(hurricanes).time)

\* the simulation state the accessors expose
simState == <<time, populations, history, hurricanes, extinctSpecies>>

\* C11 reset reinitializes the run: after reset(p) or reset(), time is 0, the
\* populations are the new (p) or retained initial populations, history is the
\* single sample (0, initial populations), the hurricane log and the extinct
\* set are empty, and the ecology parameters and configuration are unchanged.
C11_ResetReinitializes ==
    [][call'.op = "reset" =>
          /\ initialPopulations' =
                IF call'.arg # NULL THEN call'.arg[1] ELSE initialPopulations
          /\ time' = Zero
          /\ populations' = initialPopulations'
          /\ history' = <<[t |-> Zero, y |-> initialPopulations']>>
          /\ hurricanes' = <<>>
          /\ extinctSpecies' = {}
          /\ ecologyParams' = ecologyParams
          /\ config' = config]_vars

\* a reset with new initial populations on an engine whose parameters and
\* configuration had been replaced
C11_Witness ==
    /\ call.op = "reset"
    /\ call.arg # NULL
    /\ populations = call.arg[1]
    /\ ecologyParams = ParamsComp
    /\ config.timeStep = Dbl(250)
    /\ config.extinctionThreshold = Dbl(500)

\* C12 reset recomputes the extinction thresholds: after any reset call, with
\* or without new initial populations, the threshold of species i is
\* initialPopulations[i] times the extinction threshold fraction of the
\* engine's current configuration.
C12_ResetRecomputesThresholds ==
    [][call'.op = "reset" =>
          extinctionThresholds' = thresholdsOf(initialPopulations', config')]_vars

\* updateConfig(partial): mentioned fields take the partial's value, the others
\* keep theirs
C13_Merged ==
    call'.op = "updateConfig" =>
        \A f \in DOMAIN config :
            config'[f] = IF f \in DOMAIN call'.arg[1] THEN call'.arg[1][f] ELSE config[f]

\* step draws a waiting time exactly when the configured rate is positive
C13_UsesRate ==
    StepCalled => (call'.timeToNext # NULL <=> Less64(Zero, config.hurricaneRate))

\* the logged category is one of the configured list
C13_UsesCategories ==
    ShockApplied =>
        \E k \in DOMAIN config.hurricaneCategories :
            /\ Last(hurricanes').category = config.hurricaneCategories[k].name
            /\ Last(hurricanes').damage = config.hurricaneCategories[k].damage

\* every integration sample is min(timeStep, remaining time) after the one before
C13_UsesTimeStep ==
    StepCalled /\ Less64(time, time') =>
        \A k \in (Len(history) + 1)..Len(history') :
            Less64(history'[k - 1].t, history'[k].t) =>
                history'[k].t =
                    Add64(history'[k - 1].t,
                          Min64(config.timeStep, Sub64(time', history'[k - 1].t)))

\* a shock decides extinction with the configured fraction of the initial
\* population
C13_UsesFraction ==
    ShockApplied =>
        \A i \in DOMAIN populations :
            LET newPop == Damaged(PreShock[i], Last(hurricanes').damage)
                below == Less64(newPop, Mul64(initialPopulations[i],
                                              config.extinctionThreshold))
            IN  /\ populations'[i] = IF below THEN Zero ELSE newPop
                /\ below => i \in extinctSpecies'

\* C13 updateConfig takes effect on the next step: after updateConfig(partial)
\* the fields not mentioned keep their values, and the configuration's rate,
\* categories, extinction threshold fraction and time step are the values the
\* next step uses for drawing events, choosing categories, deciding extinction
\* and sizing integration steps.
C13_ConfigUsedByNextStep ==
    [][/\ C13_Merged
       /\ C13_UsesRate
       /\ C13_UsesCategories
       /\ C13_UsesTimeStep
       /\ C13_UsesFraction]_vars

\* C14 updateParams and updateConfig are frame-preserving: neither changes
\* time, populations, history, the hurricane log or the extinct set;
\* updateParams only replaces the parameters, which the integration of a later
\* step uses.
C14_FramePreserving ==
    [][/\ call'.op \in {"updateParams", "updateConfig"} => simState' = simState
       /\ call'.op = "updateParams" =>
              /\ ecologyParams' = call'.arg[1]
              /\ UNCHANGED <<config, initialPopulations, extinctionThresholds>>
       /\ StepCalled /\ Less64(time, time') =>
              history'[Len(history) + 1].y =
                  rk4Step(time, populations,
                          Min64(config.timeStep, Sub64(time', time)), ecologyParams)]_vars

\* the parameters were replaced on an engine that had integrated and logged a
\* hurricane
C14_Witness ==
    /\ call.op = "updateParams"
    /\ ecologyParams = ParamsComp
    /\ Less64(Zero, time)
    /\ hurricanes # <<>>
    /\ populations # initialPopulations

\* C16 Non-positive duration is a no-op: a step with duration < 0, or with
\* duration = 0 and no retained event, integrates nothing, leaves time,
\* populations, history, hurricane log and extinct set unchanged and returns
\* null; a step with duration <= 0 applies a shock only when duration = 0 and
\* the drawn waiting time is 0, and then adds only the post-shock sample.
C16_NonPositiveDurationNoOp ==
    [][StepCalled /\ Leq64(call'.duration[1], Zero) =>
          /\ time' = time
          /\ call'.ret # NULL =>
                /\ call'.duration[1] = Zero
                /\ call'.timeToNext = Some(Zero)
                /\ history' = Append(history, [t |-> time, y |-> populations'])
          /\ call'.ret = NULL => simState' = simState
          /\ Less64(call'.duration[1], Zero) => call'.ret = NULL]_vars

\* C17 step is all-or-nothing: under every configuration the engine accepts, a
\* step that fails leaves time, populations, history, hurricane log and
\* extinct set as they were, and a step that retained an event has applied
\* and logged its shock.
C17_StepAllOrNothing ==
    [][StepCalled =>
          IF call'.threw
          THEN simState' = simState
          ELSE call'.rand # NULL => Len(hurricanes') = Len(hurricanes) + 1]_vars

\* C15 Accessors return independent copies: no write the caller performs on a
\* value returned by getState, getPopulations or getHurricanes, or on an
\* object reachable from it, changes the engine's state as a later accessor
\* call returns it.
C15_AccessorsReturnCopies ==
    [][call'.op \in {"write populations", "write history", "write extinctSpecies",
                     "write hurricanes", "write event"} =>
          simState' = simState]_vars

\* C19 Evaluator absorbing zero: ecoDynamicsTypeII returns a vector over the
\* indices of N with dN[i] = 0 for every i with N[i] <= 0, whatever the other
\* entries, and dN[i] = N[i] * (r[i] - N[i] + compSum[i] + M[i]) for N[i] > 0,
\* compSum = Y_comp N and M = mutRaw / (1 + h mutRaw) with mutRaw = Y_mut N.
C19_EvaluatorAbsorbingZero ==
    call.op = "ecoDynamicsTypeII" /\ call.ret # NULL =>
        LET N == call.arg[1].N
            p == call.arg[1].params
            dN == call.ret[1]
            compSum(i) == Add64(Mul64(p.Y_comp[i][0], N[0]), Mul64(p.Y_comp[i][1], N[1]))
            mutRaw(i) == Add64(Mul64(p.Y_mut[i][0], N[0]), Mul64(p.Y_mut[i][1], N[1]))
            M(i) == Div64(mutRaw(i), Add64(One, Mul64(p.h[i], mutRaw(i))))
        IN  /\ DOMAIN dN = DOMAIN N
            /\ \A i \in DOMAIN N :
                   dN[i] = IF Leq64(N[i], Zero) THEN Zero
                           ELSE Mul64(N[i], Add64(Add64(Sub64(p.r[i], N[i]), compSum(i)),
                                                  M(i)))

\* a negative entry beside a positive one with a non-zero derivative, under
\* mutualism and competition
C19_Witness ==
    /\ call.op = "ecoDynamicsTypeII"
    /\ call.ret # NULL
    /\ call.arg[1].params = ParamsBoth
    /\ Less64(call.arg[1].N[0], Zero)
    /\ Less64(Zero, call.arg[1].N[1])
    /\ call.ret[1][0] = Zero
    /\ call.ret[1][1] # Zero

\* the signed matrix a returned pair of matrices was split from
C20_Signed ==
    IF call.op = "buildInteractionMatrix"
    THEN buildY(call.arg[1].network, call.arg[1].params)
    ELSE ringY(call.arg[1])

\* C20 Matrix sign partition: for every output of buildInteractionMatrix and
\* generateInteractionMatrices and every pair (i, j), Y_mut[i][j] >= 0,
\* Y_comp[i][j] <= 0, at most one of the two is non-zero, and their sum is
\* the accumulated signed value Y[i][j].
C20_MatrixSignPartition ==
    call.op \in {"buildInteractionMatrix", "generateInteractionMatrices"} /\ call.ret # NULL =>
        LET out == call.ret[1]
            Y == C20_Signed
        IN  /\ DOMAIN out.Y_mut = DOMAIN Y
            /\ DOMAIN out.Y_comp = DOMAIN Y
            /\ \A i \in DOMAIN Y :
                   /\ DOMAIN out.Y_mut[i] = DOMAIN Y
                   /\ DOMAIN out.Y_comp[i] = DOMAIN Y
                   /\ \A j \in DOMAIN Y :
                          /\ Leq64(Zero, out.Y_mut[i][j])
                          /\ Leq64(out.Y_comp[i][j], Zero)
                          /\ out.Y_mut[i][j] = Zero \/ out.Y_comp[i][j] = Zero
                          /\ Add64(out.Y_mut[i][j], out.Y_comp[i][j]) = Y[i][j]

\* a network built with negative mutualistic strengths and a positive
\* competition strength: its edges are in Y_comp and its competition in Y_mut
C20_Witness ==
    /\ call.op = "buildInteractionMatrix"
    /\ call.ret # NULL
    /\ Less64(call.arg[1].params.m, Zero)
    /\ Less64(Zero, call.arg[1].params.c)
    /\ call.ret[1].nSpecies = 5
    /\ Less64(call.ret[1].Y_comp[0][2], Zero)
    /\ Less64(Zero, call.ret[1].Y_mut[0][1])

\* solveODE has returned
Solved == call.op = "solveODE" /\ call.ret # NULL

\* the first record is (t0, y0)
C18_First ==
    Solved => call.ret[1][1] = [t |-> call.arg[1].t0, y |-> call.arg[1].y0]

\* Math.ceil(a) for 0 <= a < 2^31
C18_Ceil(a) == IF Int64(Floor64(a)) = a THEN Floor64(a) ELSE Floor64(a) + 1

\* ceil((t1 - t0) / dt) + 1 records
C18_Count ==
    Solved =>
        Len(call.ret[1]) =
            C18_Ceil(Div64(Sub64(call.arg[1].t1, call.arg[1].t0), call.arg[1].dt)) + 1

\* strictly increasing times
C18_Increasing ==
    Solved =>
        \A k \in 1..(Len(call.ret[1]) - 1) : Less64(call.ret[1][k].t, call.ret[1][k + 1].t)

\* every applied step has size min(dt, t1 - t)
C18_StepSizes ==
    Solved =>
        \A k \in 1..(Len(call.ret[1]) - 1) :
            call.ret[1][k + 1].t =
                Add64(call.ret[1][k].t,
                      Min64(call.arg[1].dt, Sub64(call.arg[1].t1, call.ret[1][k].t)))

\* the last record's time is t1
C18_LastIsT1 ==
    Solved => Last(call.ret[1]).t = call.arg[1].t1

\* C18 solveODE stepping schedule: for dt > 0 and t1 >= t0 solveODE returns,
\* its first record is (t0, y0), every applied step has size min(dt, t1 - t),
\* it returns ceil((t1 - t0) / dt) + 1 records with strictly increasing times,
\* and the last record's time is t1 exactly.
C18_SteppingSchedule ==
    Solved /\ Less64(Zero, call.arg[1].dt) /\ Leq64(call.arg[1].t0, call.arg[1].t1) =>
        /\ C18_First
        /\ C18_StepSizes
        /\ C18_Count
        /\ C18_Increasing
        /\ C18_LastIsT1

RECURSIVE C21_Cumulative(_, _)
\* the cumulative probability of the first k categories: the sum in list
\* order, as the program adds numbers
C21_Cumulative(categories, k) ==
    IF k = 0 THEN Zero
    ELSE Add64(C21_Cumulative(categories, k - 1), categories[k].probability)

\* C21 Category draw: for a non-empty ordered category list and a uniform draw
\* U, drawHurricaneDamage returns the first category in list order whose
\* cumulative probability is >= U (inclusive at the boundary), and the last
\* category when no cumulative probability reaches U.
C21_CategoryDraw ==
    call.op = "drawHurricaneDamage" /\ call.ret # NULL =>
        LET cats == call.arg[1].categories
            U == call.arg[1].rand
            reached == {k \in 1..Len(cats) : Leq64(U, C21_Cumulative(cats, k))}
            chosen == IF reached = {} THEN Len(cats)
                      ELSE CHOOSE k \in reached : \A j \in reached : k <= j
        IN  call.ret[1] = [category |-> cats[chosen].name, damage |-> cats[chosen].damage]

\* probabilities [0.5, 0.5] and U = 0.5: the first category
C21_Witness ==
    /\ call.op = "drawHurricaneDamage"
    /\ call.ret # NULL
    /\ call.arg[1].categories = CatsA
    /\ call.arg[1].rand = Dbl(500)
    /\ call.ret[1].category = "Category 1"

\* a call of buildInteractionMatrix that has ended
Built == call.op = "buildInteractionMatrix" /\ (call.ret # NULL \/ call.threw)

\* C22 Builder rejects a missing network: buildInteractionMatrix fails,
\* returning no matrices, exactly when both B and S are null; when at least
\* one is supplied it returns (Y_mut, Y_comp, nSpecies) without error.
C22_RejectsMissingNetwork ==
    Built =>
        LET nw == call.arg[1].network
        IN  /\ call.threw <=> (nw.B = NULL /\ nw.S = NULL)
            /\ call.threw => call.ret = NULL
            /\ ~call.threw => DOMAIN call.ret[1] = {"Y_mut", "Y_comp", "nSpecies"}

\* only S is supplied and the matrices are returned
C22_Witness ==
    /\ Built
    /\ call.arg[1].network.B = NULL
    /\ call.arg[1].network.S # NULL
    /\ ~call.threw
    /\ call.ret[1].nSpecies > 0

\* both matrices are missing and the call has thrown
C22_WitnessThrown ==
    Built /\ call.arg[1].network.B = NULL /\ call.arg[1].network.S = NULL /\ call.threw

\* the supplied matrices of a network
C23_Supplied(nw) == {nw.B, nw.S} \ {NULL}

\* the largest of a non-empty set of numbers
C23_Largest(S) == CHOOSE x \in S : \A y \in S : y <= x

\* a matrix, or no matrix, as an Np x Na matrix with zeros outside its extent
C23_ZeroPadded(matrix, Np, Na) ==
    Arr([i \in 0..(Np - 1) |-> Arr([j \in 0..(Na - 1) |->
        IF matrix # NULL /\ i < NRows(matrix) /\ j < NCols(matrix)
        THEN matrix[i][j] ELSE Zero])])

\* layer P has a positive edge between plant i and animal j
C23_Edge(P, i, j) ==
    P # NULL /\ i < NRows(P) /\ j < NCols(P) /\ Less64(Zero, P[i][j])

\* C23 Builder dimensions: Np is the maximum row count and Na the maximum
\* column count over the supplied matrices, nSpecies = Np + Na, Y_mut and
\* Y_comp are nSpecies x nSpecies, plants are the indices [0, Np) and animals
\* [Np, Np + Na), and a missing or smaller matrix behaves as if zero-padded
\* to (Np, Na).
C23_BuilderDimensions ==
    Built /\ ~call.threw =>
        LET nw == call.arg[1].network
            res == call.ret[1]
            Np == C23_Largest({NRows(P) : P \in C23_Supplied(nw)})
            Na == C23_Largest({NCols(P) : P \in C23_Supplied(nw)})
            n == Np + Na
            full == [B |-> C23_ZeroPadded(nw.B, Np, Na), S |-> C23_ZeroPadded(nw.S, Np, Na)]
            Y(a, b) == Add64(res.Y_mut[a][b], res.Y_comp[a][b])
        IN  /\ res.nSpecies = n
            /\ \A Ym \in {res.Y_mut, res.Y_comp} :
                  /\ DOMAIN Ym = 0..(n - 1)
                  /\ \A a \in 0..(n - 1) : DOMAIN Ym[a] = 0..(n - 1)
            /\ res = buildInteractionMatrix(full, call.arg[1].params)
            /\ \A i \in 0..(Np - 1), j \in 0..(Na - 1) :
                  /\ ~C23_Edge(nw.B, i, j) /\ ~C23_Edge(nw.S, i, j)
                        => Y(i, Np + j) = Zero /\ Y(Np + j, i) = Zero
                  /\ C23_Edge(nw.B, i, j) # C23_Edge(nw.S, i, j)
                        => Y(i, Np + j) # Zero /\ Y(Np + j, i) # Zero

\* B is 2 x 2 and S is 1 x 3: neither has the dimensions of the result
C23_Witness ==
    /\ Built
    /\ ~call.threw
    /\ call.arg[1].network.B # NULL
    /\ call.arg[1].network.S # NULL
    /\ NCols(call.arg[1].network.S) = 3
    /\ Less64(Zero, call.arg[1].network.B[1][1])
    /\ call.ret[1].nSpecies = 5

\* the plants and the animals of a network
C24_Plants(nw) == 0..(C23_Largest({NRows(P) : P \in C23_Supplied(nw)}) - 1)

C24_Animals(nw) == 0..(C23_Largest({NCols(P) : P \in C23_Supplied(nw)}) - 1)

\* the plants and the animals with a positive incident edge in layer P
C24_ActivePlants(nw, P) == {i \in C24_Plants(nw) : \E j \in C24_Animals(nw) : C23_Edge(P, i, j)}

C24_ActiveAnimals(nw, P) == {j \in C24_Animals(nw) : \E i \in C24_Plants(nw) : C23_Edge(P, i, j)}

\* c / max(activeCount - 1, 1) when both i and j are among the active
C24_Share(c, active, i, j) ==
    IF i \in active /\ j \in active
    THEN Div64(c, Int64(IF Cardinality(active) - 1 > 1 THEN Cardinality(active) - 1 ELSE 1))
    ELSE Zero

\* the value accumulated in Y[a][b], read from the returned matrices
C24_Y(res, a, b) == Add64(res.Y_mut[a][b], res.Y_comp[a][b])

\* C24 Competition rule: for two distinct entities i, j of the same type,
\* Y[i][j] is the sum over the layers in which both are active of
\* c / max(activeCountOfThatTypeInLayer - 1, 1); it is 0 when there is no such
\* layer, and Y[i][j] = Y[j][i].
C24_CompetitionRule ==
    Built /\ ~call.threw =>
        LET nw == call.arg[1].network
            c == call.arg[1].params.c
            res == call.ret[1]
            Np == Cardinality(C24_Plants(nw))
        IN  /\ \A i, j \in C24_Plants(nw) : i # j =>
                  /\ C24_Y(res, i, j) =
                         Add64(C24_Share(c, C24_ActivePlants(nw, nw.B), i, j),
                               C24_Share(c, C24_ActivePlants(nw, nw.S), i, j))
                  /\ C24_Y(res, i, j) = C24_Y(res, j, i)
            /\ \A i, j \in C24_Animals(nw) : i # j =>
                  /\ C24_Y(res, Np + i, Np + j) =
                         Add64(C24_Share(c, C24_ActiveAnimals(nw, nw.B), i, j),
                               C24_Share(c, C24_ActiveAnimals(nw, nw.S), i, j))
                  /\ C24_Y(res, Np + i, Np + j) = C24_Y(res, Np + j, Np + i)

\* plants 0 and 1 are active in both layers, two of two in B and two of three
\* in S: c + c / 2
C24_Witness ==
    /\ Built
    /\ ~call.threw
    /\ call.arg[1].params.c = Dbl(100)
    /\ C24_ActivePlants(call.arg[1].network, call.arg[1].network.B) = {0, 1}
    /\ C24_ActivePlants(call.arg[1].network, call.arg[1].network.S) = {0, 1, 2}
    /\ call.ret[1].Y_mut[0][1] = Add64(Dbl(100), Dbl(50))

\* the sum of the weights of row i, and of column j, of layer P
C25_RowSum(nw, P, i) ==
    LET cols == {j \in C24_Animals(nw) : j < NCols(P)}
        F[k \in 0..Cardinality(cols)] ==
            IF k = 0 THEN Zero ELSE Add64(F[k - 1], P[i][k - 1])
    IN  F[Cardinality(cols)]

C25_ColSum(nw, P, j) ==
    LET rows == {i \in C24_Plants(nw) : i < NRows(P)}
        F[k \in 0..Cardinality(rows)] ==
            IF k = 0 THEN Zero ELSE Add64(F[k - 1], P[k - 1][j])
    IN  F[Cardinality(rows)]

\* strength * edgeWeight(i, j) / sqrt(sum) for a positive edge of layer P
C25_Credit(nw, P, strength, i, j, byRow) ==
    IF C23_Edge(P, i, j)
    THEN Div64(Mul64(strength, P[i][j]),
               Sqrt64(IF byRow THEN C25_RowSum(nw, P, i) ELSE C25_ColSum(nw, P, j)))
    ELSE Zero

\* C25 Mutualism rule: for every plant i and animal j, Y[i][Np + j] is the sum
\* over the layers (B with strength m, S with strength d) with a positive edge
\* (i, j) of strength * edgeWeight(i, j) / sqrt(rowSum(i)), and Y[Np + j][i]
\* the same with sqrt(colSum(j)), the sums taken within the layer; pairs
\* without a positive edge get 0.
C25_MutualismRule ==
    Built /\ ~call.threw =>
        LET nw == call.arg[1].network
            p == call.arg[1].params
            res == call.ret[1]
            Np == Cardinality(C24_Plants(nw))
        IN  \A i \in C24_Plants(nw), j \in C24_Animals(nw) :
                /\ C24_Y(res, i, Np + j) =
                       Add64(C25_Credit(nw, nw.B, p.m, i, j, TRUE),
                             C25_Credit(nw, nw.S, p.d, i, j, TRUE))
                /\ C24_Y(res, Np + j, i) =
                       Add64(C25_Credit(nw, nw.B, p.m, i, j, FALSE),
                             C25_Credit(nw, nw.S, p.d, i, j, FALSE))

\* the edge (0, 1) has weight 2 in B, in a row of sum 3, and weight 1 in S, in
\* a row of sum 3 and a column of sum 1
C25_Witness ==
    /\ Built
    /\ ~call.threw
    /\ call.arg[1].params.m = Dbl(500)
    /\ call.arg[1].params.d = Dbl(250)
    /\ call.arg[1].network.B # NULL
    /\ call.arg[1].network.S # NULL
    /\ NRows(call.arg[1].network.S) = 1
    /\ NCols(call.arg[1].network.S) = 3
    /\ call.arg[1].network.B[0] = Arr([j \in 0..1 |-> Int64(j + 1)])
    /\ call.ret[1].Y_mut[0][3] =
           Add64(Div64(One, Sqrt64(Int64(3))), Div64(Dbl(250), Sqrt64(Int64(3))))

\* C26 Structural separation: competition is written only to same-type cells
\* off the diagonal and mutualism only to cross-type cells, so no cell of Y
\* receives both and every diagonal cell Y[i][i] is 0.
C26_StructuralSeparation ==
    Built /\ ~call.threw =>
        LET nw == call.arg[1].network
            p == call.arg[1].params
            res == call.ret[1]
            Np == Cardinality(C24_Plants(nw))
            n == res.nSpecies
            sameType(a, b) == (a < Np) = (b < Np)
            onlyComp == buildInteractionMatrix(nw, [p EXCEPT !.m = Zero, !.d = Zero])
            onlyMut == buildInteractionMatrix(nw, [p EXCEPT !.c = Zero])
        IN  \A a, b \in 0..(n - 1) :
                /\ a = b => C24_Y(res, a, b) = Zero
                /\ sameType(a, b) => /\ C24_Y(onlyMut, a, b) = Zero
                                     /\ C24_Y(res, a, b) = C24_Y(onlyComp, a, b)
                /\ ~sameType(a, b) => /\ C24_Y(onlyComp, a, b) = Zero
                                      /\ C24_Y(res, a, b) = C24_Y(onlyMut, a, b)

\* a network where plant 0 is active in both layers and has edges: its
\* diagonal cell is 0 while its row holds competition and mutualism
C26_Witness ==
    /\ Built
    /\ ~call.threw
    /\ call.arg[1].network.B # NULL
    /\ call.arg[1].network.S # NULL
    /\ C24_Y(call.ret[1], 0, 0) = Zero
    /\ C24_Y(call.ret[1], 0, 1) # Zero
    /\ C24_Y(call.ret[1], 0, NRows(call.ret[1].Y_mut) - 1) # Zero

\* C27 Extinct implies zero: in every reachable engine state every index in
\* the extinct-species set has current population exactly 0.
C27_ExtinctImpliesZero ==
    \A i \in extinctSpecies : populations[i] = Zero

\* after a second shock one species is extinct, at 0, and another is alive
C27_Witness ==
    /\ call.op = "step"
    /\ Len(hurricanes) >= 2
    /\ \E i \in extinctSpecies : \E j \in DOMAIN populations \ extinctSpecies :
          /\ populations[i] = Zero
          /\ Less64(Zero, populations[j])

\* C28 History tracks the current state: in every reachable engine state the
\* last history sample has the engine's current time and the current
\* populations, and every history sample vector has the length of the
\* population vector.
C28_HistoryTracksState ==
    /\ Last(history).t = time
    /\ Last(history).y = populations
    /\ \A k \in DOMAIN history : DOMAIN history[k].y = DOMAIN populations

\* a step integrated up to an event and applied the shock, which changed the
\* populations of the last integration sample
C28_Witness ==
    /\ call.op = "step"
    /\ call.ret # NULL
    /\ Len(history) >= 3
    /\ history[Len(history) - 1].t = time
    /\ Less64(history[Len(history) - 2].t, history[Len(history) - 1].t)
    /\ history[Len(history) - 1].y # populations

\* C29 Time never goes backwards and a step applies at most one shock: across
\* every step call, whatever its duration, the engine time does not decrease
\* and the hurricane log grows by at most one record; when a shock is applied
\* the step ends at the event time, the start time plus the waiting time
\* drawn in this call, having advanced by at most the requested duration
\* (the event time is at most the start time plus the duration).
C29_TimeForwardOneShock ==
    [][StepCalled =>
          /\ Leq64(time, time')
          /\ Len(hurricanes') <= Len(hurricanes) + 1
          /\ IsPrefix(hurricanes, hurricanes')
          /\ ShockApplied =>
                /\ Len(hurricanes') = Len(hurricanes) + 1
                /\ time' = call'.ret[1]
                /\ time' = Add64(time, call'.timeToNext[1])
                /\ time' = Last(hurricanes').time
                /\ Leq64(time', Add64(time, call'.duration[1]))]_vars

\* a shock was applied before the end of the requested duration: the step
\* ended at the event time
C29_Witness ==
    /\ call.op = "step"
    /\ call.ret # NULL
    /\ Less64(Zero, call.timeToNext[1])
    /\ Less64(call.timeToNext[1], call.duration[1])
    /\ time = call.ret[1]
    /\ Len(hurricanes) = 1

\* a render is queued: a setter was handed a value the page has not rendered
C30_RenderQueued ==
    home.paramsSet \/ home.networkVersion # home.rendered.networkVersion

\* the engine is a new one, built from the Math.random() values of the step,
\* and the page displays its state
C30_Recreated ==
    /\ call'.op = "constructor"
    /\ time' = Zero
    /\ history' = <<[t |-> Zero, y |-> populations']>>
    /\ hurricanes' = <<>>
    /\ extinctSpecies' = {}
    /\ home'.draws # NULL
    /\ ecologyParams'.r =
           initializeGrowthRates(home'.actualNSpecies, home'.draws[1].r)
    /\ populations' =
           initializePopulations(home'.actualNSpecies, home'.draws[1].N)
    /\ home'.currentTime = Zero
    /\ home'.populations = populations'
    /\ Len(home'.history) = 1
    /\ home'.hurricanes = <<>>
    /\ home'.extinctSpecies = {}

C30_Recreating ==
    \/ home'.event \in {"handleClearNetwork", "handleReset", "render"}
    \/ home'.event = "handleParamChange" /\ ~home'.paramsSet
    \/ C30_RenderQueued /\ ~C30_RenderQueued'

\* a slider change or a network load hands its values to the setters and
\* leaves the render queued
C30_Queueing ==
    \/ home'.event = "handleNetworkLoaded"
    \/ home'.event = "handleParamChange" /\ home'.paramsSet

C30_WitnessRender ==
    /\ home # NULL
    /\ home.event = "render"
    /\ home.isRunning
    /\ home.rendered.isRunning
    /\ home.params.simulationSpeed = Dbl(500)
    /\ home.params.cat1Damage = One
    /\ config.hurricaneCategories[1].damage = One
    /\ home.currentTime = Zero
    /\ Len(home.history) = 1
    /\ home.history[1].y = populations

\* the render of a network load has re-created the engine over the network
\* loaded and stopped the frames
C30_WitnessLoad ==
    /\ home # NULL
    /\ home.event = "render"
    /\ home.networkVersion = 1
    /\ home.rendered.uploadStatus.B
    /\ home.actualNSpecies = 2
    /\ ~home.rendered.isRunning
    /\ time = Zero

\* a frame showed a shock that wiped species out
C30_WitnessProgress ==
    /\ home # NULL
    /\ home.event = "animate"
    /\ home.stepsLeft = 0
    /\ home.extinctSpecies # {}
    /\ Len(home.hurricanes) > 0
    /\ Len(home.history) > 2

\* a frame of two steps stepped the engine there was while a slider change
\* was queued
C30_WitnessStale ==
    /\ home # NULL
    /\ home.event = "animate"
    /\ home.stepsLeft = 0
    /\ home.rendered.params.simulationSpeed = One
    /\ Less64(Zero, home.currentTime)
    /\ home.paramsSet
    /\ home.params.cat1Damage = One
    /\ config.hurricaneCategories[1].damage = Dbl(100)
    /\ Len(hurricanes) > 0

====
